---- MODULE Spec2Model ----
(***************************************************************************)
(* Workout tracker (src/App.js, the App of lines 2695-2995 and the        *)
(* TodayScreenInner of lines 1370-2365): rotation of workouts, template   *)
(* resolution from the seed data and the overrides, history of logs, and  *)
(* the key-value storage they are persisted in.                           *)
(*                                                                         *)
(* A string is a TLA+ string; where the code inspects its characters     *)
(* (toLowerCase, trim, includes, sort, join) the model works on its       *)
(* spelling, the sequence of its characters given by Spelling.  An        *)
(* optional value (null / undefined in the code) is the empty sequence,   *)
(* a present value v is <<v>>.  A date string "M/D/Y" is <<M, D, Y>>.      *)
(***************************************************************************)
EXTENDS Integers, Sequences, FiniteSets, TLC

\* ------------------------------------------------------------------ bounds
MaxSessions == 1
MaxEdits == 1
MaxReloads == 1
MaxOps == 2
MaxInputs == 1
MaxRows == 1
MaxCalls == 2
MaxCount == 2
MaxEntered == 3
MaxPresses == 2
MaxDays == 4
MaxPlace == 1
MaxAbPlace == 2
MaxSetIndex == 3
MaxRestoreEntered == 2
MaxRestorePresses == 1

\* ------------------------------------------------- optional values, strings
None == <<>>
Some(v) == <<v>>
IsSome(o) == o # <<>>
Val(o) == o[1]

Range(s) == {s[i] : i \in 1..Len(s)}

UpperChars == <<"A","B","C","D","E","F","G","H","I","J","K","L","M","N","O","P","Q","R","S","T","U","V","W","X","Y","Z">>
LowerChars == <<"a","b","c","d","e","f","g","h","i","j","k","l","m","n","o","p","q","r","s","t","u","v","w","x","y","z">>
\* UTF-16 order of the characters the model uses: space . A-Z a-z |
CodeOrder == <<" ", ".">> \o UpperChars \o LowerChars \o <<"|">>

Chars == Range(CodeOrder)

CodeOf == [c \in Chars |-> CHOOSE i \in 1..Len(CodeOrder) : CodeOrder[i] = c]

CharCode(c) == CodeOf[c]

LowerOf == [c \in Chars |-> IF \E i \in 1..26 : UpperChars[i] = c
                            THEN LowerChars[CHOOSE i \in 1..26 : UpperChars[i] = c]
                            ELSE c]

ToLowerChar(c) == LowerOf[c]

ToLowerCase(s) == [i \in 1..Len(s) |-> ToLowerChar(s[i])]

RECURSIVE TrimStart(_)
TrimStart(s) == IF s # <<>> /\ s[1] = " " THEN TrimStart(Tail(s)) ELSE s

RECURSIVE TrimEnd(_)
TrimEnd(s) == IF s # <<>> /\ s[Len(s)] = " " THEN TrimEnd(SubSeq(s, 1, Len(s) - 1)) ELSE s

Trim(s) == TrimEnd(TrimStart(s))

Includes(s, k) == \E i \in 0..(Len(s) - Len(k)) : SubSeq(s, i + 1, i + Len(k)) = k

\* a < b in the order of Array.prototype.sort without a comparator
RECURSIVE StrLess(_, _)
StrLess(a, b) ==
  IF b = <<>> THEN FALSE
  ELSE IF a = <<>> THEN TRUE
  ELSE IF a[1] # b[1] THEN CharCode(a[1]) < CharCode(b[1])
  ELSE StrLess(Tail(a), Tail(b))

RECURSIVE InsertStr(_, _)
InsertStr(x, sorted) ==
  IF sorted = <<>> THEN <<x>>
  ELSE IF StrLess(x, sorted[1]) THEN <<x>> \o sorted
  ELSE <<sorted[1]>> \o InsertStr(x, Tail(sorted))

RECURSIVE SortStrings(_)
SortStrings(xs) == IF xs = <<>> THEN <<>> ELSE InsertStr(xs[Len(xs)], SortStrings(SubSeq(xs, 1, Len(xs) - 1)))

RECURSIVE Join(_, _)
Join(xs, sep) ==
  IF xs = <<>> THEN <<>>
  ELSE IF Len(xs) = 1 THEN xs[1]
  ELSE xs[1] \o <<sep>> \o Join(Tail(xs), sep)

\* ------------------------------------------------------------------- dates
\* new Date(year, month - 1, day).getTime(), up to an order-preserving scale
ParseWorkoutDate(d) ==
  IF d = <<>> \/ Len(d) < 3 THEN 0
  ELSE LET year == IF d[3] < 100 THEN 2000 + d[3] ELSE d[3]
       IN year * 372 + (d[1] - 1) * 31 + d[2]

\* stable sort, newest first: (a, b) => parseWorkoutDate(b) - parseWorkoutDate(a)
RECURSIVE InsertDate(_, _)
InsertDate(x, sorted) ==
  IF sorted = <<>> THEN <<x>>
  ELSE IF ParseWorkoutDate(x) > ParseWorkoutDate(sorted[1]) THEN <<x>> \o sorted
  ELSE <<sorted[1]>> \o InsertDate(x, Tail(sorted))

RECURSIVE SortDatesDesc(_)
SortDatesDesc(ds) ==
  IF ds = <<>> THEN <<>>
  ELSE InsertDate(ds[Len(ds)], SortDatesDesc(SubSeq(ds, 1, Len(ds) - 1)))

\* the keys of an object filled in the order of xs (first occurrence wins)
RECURSIVE Keys(_)
Keys(xs) ==
  IF xs = <<>> THEN <<>>
  ELSE LET front == Keys(SubSeq(xs, 1, Len(xs) - 1))
           x == xs[Len(xs)]
       IN IF x \in Range(front) THEN front ELSE Append(front, x)

MapSeq(xs, F(_)) == [i \in 1..Len(xs) |-> F(xs[i])]

\* --------------------------------------------------------- string literals
Push == "Push"
Pull == "Pull"
Legs == "Legs"
HeavyType == "Heavy Legs and Shoulders"
HeavyKey == "heavy legs and shoulders"
KotType == "KOT"
KotKey == "kot"
MartyName == "Marty St Louis"
MartyKey == "marty st louis"
PushBDate == <<11, 10, 2025>>

\* the characters of the strings of the model
Spelling ==
  ("" :> <<>>)
  @@ ("Push" :> <<"P","u","s","h">>)
  @@ ("Pull" :> <<"P","u","l","l">>)
  @@ ("Legs" :> <<"L","e","g","s">>)
  @@ ("Heavy Legs and Shoulders" :> <<"H","e","a","v","y"," ","L","e","g","s"," ","a","n","d"," ","S","h","o","u","l","d","e","r","s">>)
  @@ ("heavy legs and shoulders" :> <<"h","e","a","v","y"," ","l","e","g","s"," ","a","n","d"," ","s","h","o","u","l","d","e","r","s">>)
  @@ ("KOT" :> <<"K","O","T">>)
  @@ ("kot" :> <<"k","o","t">>)
  @@ ("Marty St Louis" :> <<"M","a","r","t","y"," ","S","t"," ","L","o","u","i","s">>)
  @@ ("Marty St. Louis" :> <<"M","a","r","t","y"," ","S","t","."," ","L","o","u","i","s">>)
  @@ ("marty st louis" :> <<"m","a","r","t","y"," ","s","t"," ","l","o","u","i","s">>)
  @@ ("Dip" :> <<"D","i","p">>)
  @@ ("Fly" :> <<"F","l","y">>)
  @@ ("OHP" :> <<"O","H","P">>)
  @@ ("Row" :> <<"R","o","w">>)
  @@ ("Crl" :> <<"C","r","l">>)
  @@ ("Sq" :> <<"S","q">>)
  @@ ("sq " :> <<"s","q"," ">>)
  @@ ("Lng" :> <<"L","n","g">>)
  @@ ("Sled" :> <<"S","l","e","d">>)
  @@ ("New" :> <<"N","e","w">>)
  @@ (" New " :> <<" ","N","e","w"," ">>)
  @@ ("PUSH" :> <<"P","U","S","H">>)
  @@ ("us" :> <<"u","s">>)
  @@ ("Push Day" :> <<"P","u","s","h"," ","D","a","y">>)
  @@ ("Decline weighted abs" :> <<"D", "e", "c", "l", "i", "n", "e", " ", "w", "e", "i", "g", "h", "t", "e", "d", " ", "a", "b", "s">>)
  @@ ("Ab crunch machine" :> <<"A", "b", " ", "c", "r", "u", "n", "c", "h", " ", "m", "a", "c", "h", "i", "n", "e">>)
  @@ ("Abs oblique machine" :> <<"A", "b", "s", " ", "o", "b", "l", "i", "q", "u", "e", " ", "m", "a", "c", "h", "i", "n", "e">>)

CharsOf(s) == Spelling[s]

\* the string with the given characters
StrOf(chars) == CHOOSE s \in DOMAIN Spelling : Spelling[s] = chars

\* Order: Push A, Pull A, Legs A, Push B, Pull B, Legs B, Push C, Pull C, Legs KOT
WORKOUT_SEQUENCE == <<
  [type |-> Push, variation |-> "A"], [type |-> Pull, variation |-> "A"], [type |-> Legs, variation |-> "A"],
  [type |-> Push, variation |-> "B"], [type |-> Pull, variation |-> "B"], [type |-> Legs, variation |-> "B"],
  [type |-> Push, variation |-> "C"], [type |-> Pull, variation |-> "C"], [type |-> Legs, variation |-> "KOT"] >>

CACHE_MAX == 20

\* --------------------------------------------------------------- seed data
\* seed_data.json: one record per exercise of a past session, with the sets
\* of that day; no record carries completedAt.
SeedSet(w, r) == [weight |-> w, reps |-> r, modifier |-> "undefined"]

SeedRec(d, t, name, sets) == [date |-> d, type |-> t, exercise |-> name, note |-> "", sets |-> Some(sets)]

seedData == <<
  SeedRec(<<11, 3, 2025>>, Push, "Fly", <<SeedSet("50", "12")>>),
  SeedRec(<<11, 10, 2025>>, Push, "OHP", <<SeedSet("95", "8"), SeedSet("95", "Dropset")>>),
  SeedRec(<<11, 19, 2025>>, HeavyType, "Lng", <<SeedSet("40", "10")>>),
  SeedRec(<<11, 24, 2025>>, Push, "Fly", <<SeedSet("55", "12")>>),
  SeedRec(<<11, 24, 2025>>, Push, "Dip", <<SeedSet("Bodyweight", "10")>>),
  SeedRec(<<11, 25, 2025>>, Pull, "Row", <<SeedSet("135", "8")>>),
  SeedRec(<<11, 26, 2025>>, HeavyType, "sq ", <<SeedSet("225", "5")>>),
  SeedRec(<<12, 1, 2025>>, Push, "Dip", <<SeedSet("Bodyweight", "12")>>),
  SeedRec(<<12, 1, 2025>>, Push, "Fly", <<SeedSet("55", "Negative")>>),
  SeedRec(<<12, 2, 2025>>, Pull, "Row", <<SeedSet("140", "8")>>),
  SeedRec(<<12, 2, 2025>>, Pull, "Crl", <<SeedSet("30", "12")>>),
  SeedRec(<<12, 3, 2025>>, HeavyType, "Sq", <<SeedSet("230", "5")>>),
  SeedRec(<<12, 4, 2025>>, KotType, "Marty St. Louis", <<SeedSet("", "20")>>),
  SeedRec(<<12, 4, 2025>>, KotType, "Sled", <<SeedSet("90", "4")>>) >>

\* ------------------------------------------------ getDistinctSessionDates
TypeMatches(d, typeKey) == d.type # "" /\ Includes(ToLowerCase(CharsOf(d.type)), ToLowerCase(CharsOf(typeKey)))

EntriesOn(entries, date) == SelectSeq(entries, LAMBDA e : e.date = date)

Signature(entries) == Join(SortStrings(MapSeq(entries, LAMBDA e : ToLowerCase(Trim(CharsOf(e.exercise))))), "|")

\* the for loop over the sorted dates, from position i on; sig is the signature of dates[i]
RECURSIVE ScanDates(_, _, _, _, _, _)
ScanStep(filtered, dates, i, seen, result, count, sig) ==
  IF sig \in seen THEN ScanDates(filtered, dates, i + 1, seen, result, count)
  ELSE IF Len(result) + 1 >= count THEN Append(result, dates[i])
  ELSE ScanDates(filtered, dates, i + 1, seen \cup {sig}, Append(result, dates[i]), count)

ScanDates(filtered, dates, i, seen, result, count) ==
  IF i > Len(dates) THEN result
  ELSE ScanStep(filtered, dates, i, seen, result, count, Signature(EntriesOn(filtered, dates[i])))

\* byDate, dates and the loop, on the entries of the type
DistinctOf(filtered, count) ==
  ScanDates(filtered, SortDatesDesc(Keys(MapSeq(filtered, LAMBDA d : d.date))), 1, {}, <<>>, count)

ComputeDistinctDates(data, typeKey, count) ==
  DistinctOf(SelectSeq(data, LAMBDA d : TypeMatches(d, typeKey)), count)

\* a cache key that leaves the type out
CacheKeyCountOnly(typeKey, count) == <<<<>>, count>>

CacheKey(typeKey, count) == <<ToLowerCase(CharsOf(typeKey)), count>>

CacheHas(cache, key) == \E i \in 1..Len(cache) : cache[i].key = key

CacheGet(cache, key) == cache[CHOOSE i \in 1..Len(cache) : cache[i].key = key].value

\* _distinctDatesCache.set(key, result), after the eviction of the oldest key when full
CacheSet(cache, key, result) ==
  [result |-> result,
   cache |-> Append(IF Len(cache) >= CACHE_MAX THEN Tail(cache) ELSE cache, [key |-> key, value |-> result])]

CachedOrComputed(cache, key, data, typeKey, count) ==
  IF CacheHas(cache, key) THEN [result |-> CacheGet(cache, key), cache |-> cache]
  ELSE CacheSet(cache, key, ComputeDistinctDates(data, typeKey, count))

\* the value returned and the cache left behind
getDistinctSessionDates(cache, data, typeKey, count) ==
  CachedOrComputed(cache, CacheKey(typeKey, count), data, typeKey, count)

\* ------------------------------------------------- sets and exercise lists
\* toLowerCase of the reps strings the model uses (none has surrounding blanks)
RepsLower(r) == CASE r = "Dropset" -> "dropset" [] r = "Negative" -> "negative" [] r = "Drop" -> "drop" [] r = "Neg" -> "neg" [] OTHER -> r

EmptySet == [weight |-> "", reps |-> "", modifier |-> "null"]

normalizeSet(s) ==
  LET repsRaw == s.reps
      isDropset == RepsLower(repsRaw) = "dropset" \/ repsRaw = "Drop"
      isNegative == RepsLower(repsRaw) = "negative" \/ repsRaw = "Neg"
      given == IF s.modifier = "undefined" THEN "null" ELSE s.modifier
      modifier == IF given \in {"drop", "negative"} THEN given
                  ELSE IF isDropset THEN "drop" ELSE IF isNegative THEN "negative" ELSE "null"
      reps == IF modifier # "null" THEN ""
              ELSE IF repsRaw \in {"Dropset", "Negative"} THEN "" ELSE repsRaw
  IN [weight |-> s.weight, reps |-> reps, modifier |-> modifier]

normalizeExerciseSets(ex) ==
  IF ex.sets = None THEN [ex EXCEPT !.sets = Some(<<EmptySet>>)]
  ELSE [ex EXCEPT !.sets = Some(MapSeq(Val(ex.sets), normalizeSet))]

ExerciseNames(exercises) == MapSeq(exercises, LAMBDA e : e.exercise)

\* ------------------------------------------------------------- overrides
Types == {Push, Pull, Legs}
Variations == {"A", "B", "C", "KOT"}
Pairs == [type : Types, variation : Variations]
Pair(t, v) == [type |-> t, variation |-> v]
NoOverrides == [p \in Pairs |-> None]

\* overrides?.[type]?.[variation]
OverrideOf(ovr, t, v) == IF Pair(t, v) \in Pairs THEN ovr[Pair(t, v)] ELSE None

\* ---------------------------------------------- TodayScreenInner.currentWorkout
\* name.replace('.', '').trim().toLowerCase() === 'marty st louis'
RemoveFirstDot(s) ==
  IF \E i \in 1..Len(s) : s[i] = "."
  THEN LET i == CHOOSE j \in 1..Len(s) : s[j] = "." /\ \A k \in 1..(j - 1) : s[k] # "."
       IN SubSeq(s, 1, i - 1) \o SubSeq(s, i + 1, Len(s))
  ELSE s

isMartyName(name) == ToLowerCase(Trim(RemoveFirstDot(CharsOf(name)))) = CharsOf(MartyKey)

First(xs, dflt) == IF xs = <<>> THEN dflt ELSE xs[1]

\* the override branch
OverrideWorkout(cache, todaysType, overrideData) ==
  [type |-> IF todaysType = Legs THEN HeavyType ELSE todaysType,
   date |-> First(overrideData.lastCompletedDate, None),
   custom |-> TRUE,
   exercises |-> MapSeq(overrideData.exercises, normalizeExerciseSets),
   cache |-> cache]

\* originalMarty?.note || ''
MartyNote(exercisesForDate) ==
  First(MapSeq(SelectSeq(exercisesForDate, LAMBDA ex : isMartyName(ex.exercise)), LAMBDA ex : ex.note), "")

\* Legs KOT: Marty St Louis with three empty sets first, then the rest
KotWorkout(cache, targetDate, exercisesForDate) ==
  [type |-> KotType, date |-> targetDate, custom |-> FALSE,
   exercises |-> <<[exercise |-> MartyName, note |-> MartyNote(exercisesForDate),
                    sets |-> Some(<<EmptySet, EmptySet, EmptySet>>)]>>
                 \o MapSeq(SelectSeq(exercisesForDate, LAMBDA ex : ~isMartyName(ex.exercise)), normalizeExerciseSets),
   cache |-> cache]

KotOn(cache, kotSessions, targetDate) == KotWorkout(cache, targetDate, EntriesOn(kotSessions, targetDate))

KotOf(cache, kotSessions) ==
  KotOn(cache, kotSessions, First(SortDatesDesc(Keys(MapSeq(kotSessions, LAMBDA d : d.date))), None))

\* distinctDates[targetIdx] ?? distinctDates[0]
TargetDate(distinctDates, targetIdx) ==
  IF targetIdx < Len(distinctDates) THEN distinctDates[targetIdx + 1] ELSE First(distinctDates, None)

\* Legs A/B: the two most recent distinct Heavy Legs and Shoulders templates
HeavyOn(cache, targetDate) ==
  [type |-> HeavyType, date |-> targetDate, custom |-> FALSE,
   exercises |-> MapSeq(EntriesOn(SelectSeq(seedData, LAMBDA d : TypeMatches(d, HeavyKey)), targetDate),
                        normalizeExerciseSets),
   cache |-> cache]

HeavyWorkout(got, variation) == HeavyOn(got.cache, TargetDate(got.result, IF variation = "A" THEN 0 ELSE 1))

\* Push / Pull: the three most recent distinct templates, Push B fixed to 11/10/2025
SeedFrom(cache, searchKey, targetDate, filtered) ==
  [type |-> IF filtered # <<>> /\ filtered[1].type # "" THEN filtered[1].type ELSE searchKey,
   date |-> targetDate, custom |-> FALSE,
   exercises |-> MapSeq(filtered, normalizeExerciseSets),
   cache |-> cache]

SeedOn(cache, searchKey, targetDate) ==
  SeedFrom(cache, searchKey, targetDate,
           SelectSeq(seedData, LAMBDA d : TypeMatches(d, searchKey) /\ d.date = targetDate))

SeedWorkout(got, todaysType, variation) ==
  SeedOn(got.cache, todaysType,
         IF todaysType = Push /\ variation = "B" THEN PushBDate
         ELSE TargetDate(got.result, IF variation = "A" THEN 0 ELSE IF variation = "B" THEN 1 ELSE 2))

\* a resolution that never takes the override
HasExercisesNever(overrideData) == FALSE

HasExercises(overrideData) == IsSome(overrideData) /\ Len(Val(overrideData).exercises) > 0

ResolvedWith(cache, todaysType, variation, overrideData) ==
  IF HasExercises(overrideData) THEN OverrideWorkout(cache, todaysType, Val(overrideData))
  ELSE IF todaysType = Legs
  THEN IF variation = "KOT" THEN KotOf(cache, SelectSeq(seedData, LAMBDA d : TypeMatches(d, KotKey)))
       ELSE HeavyWorkout(getDistinctSessionDates(cache, seedData, HeavyKey, 2), variation)
  ELSE SeedWorkout(getDistinctSessionDates(cache, seedData, todaysType, 3), todaysType, variation)

\* the memoized value and the cache left behind by the lookups it makes
currentWorkout(cache, todaysType, variation, overrides) ==
  ResolvedWith(cache, todaysType, variation, OverrideOf(overrides, todaysType, variation))

\* ------------------------------------------------------------ history logs
\* log.completedAt, 0 where the record has none (seed records)
CompletedAt(log) == IF "completedAt" \in DOMAIN log THEN log.completedAt ELSE 0

\* the "weight x reps" parts of the notes string, as pairs
buildNotesFromSeedSets(record) ==
  IF record.sets = None \/ Val(record.sets) = <<>> THEN <<>>
  ELSE MapSeq(Val(record.sets), LAMBDA st : <<IF st.weight = "Bodyweight" THEN "BW" ELSE st.weight, st.reps>>)

normalizeHistoryLog(log) ==
  IF "notes" \in DOMAIN log /\ log.notes # <<>> THEN log
  ELSE LET notes == buildNotesFromSeedSets(log)
       IN IF notes # <<>>
          THEN [f \in DOMAIN log \cup {"notes"} |-> IF f = "notes" THEN notes ELSE log[f]]
          ELSE log

normalizedSeed == MapSeq(seedData, normalizeHistoryLog)

UserLogs(h) == SelectSeq(h, LAMBDA log : CompletedAt(log) # 0)

\* format(new Date(), 'MM/dd/yy')
Today == <<12, 5, 25>>

\* ---------------------------------------------------------------- rotation
\* a findIndex that always answers the first slot
FindIndexFirst(w) == 0

\* WORKOUT_SEQUENCE.findIndex(w => w.type === x.type && w.variation === x.variation), 0-based, -1 if none
FindIndex(w) ==
  IF \E i \in 1..Len(WORKOUT_SEQUENCE) : WORKOUT_SEQUENCE[i] = w
  THEN (CHOOSE i \in 1..Len(WORKOUT_SEQUENCE) : WORKOUT_SEQUENCE[i] = w) - 1
  ELSE -1

\* setNext: the suggestion computed from the value read under LAST_WORKOUT_KEY
StartupSuggestion(last) ==
  LET idx == IF IsSome(last) THEN FindIndex(Val(last)) ELSE -1
      nextIdx == IF idx < 0 THEN 0 ELSE (idx + 1) % Len(WORKOUT_SEQUENCE)
  IN WORKOUT_SEQUENCE[nextIdx + 1]

\* a rotation that does not advance
NextAfterStuck(completed) == completed

\* onFinish: the suggestion after completing `completed`
NextAfter(completed) ==
  LET idx == FindIndex(completed)
      nextIdx == (idx + 1) % Len(WORKOUT_SEQUENCE)
  IN WORKOUT_SEQUENCE[nextIdx + 1]

\* the TYPE button
NextType(t) == IF t = Push THEN Pull ELSE IF t = Pull THEN Legs ELSE Push

\* a VARIATION button that gives A, B, C for every type
NextVariationABC(t, v) == IF v = "A" THEN "B" ELSE IF v = "B" THEN "C" ELSE "A"

\* the VARIATION button
NextVariation(t, v) ==
  IF t = Legs THEN (IF v = "A" THEN "B" ELSE IF v = "B" THEN "KOT" ELSE "A")
  ELSE (IF v = "A" THEN "B" ELSE IF v = "B" THEN "C" ELSE "A")

\* ------------------------------------------------------------ the edit modal
NewName == " New "

\* "Edit workout": the template's exercises as the modal opens with them
EditOpen(e) ==
  LET sets == IF e.sets = None THEN <<EmptySet>>
              ELSE MapSeq(Val(e.sets), LAMBDA st : [weight |-> st.weight, reps |-> st.reps,
                                                     modifier |-> IF st.modifier = "undefined" THEN "null" ELSE st.modifier])
  IN [e EXCEPT !.sets = Some(sets)]

\* "+ Add exercise"
AddedExercise(name) == [exercise |-> StrOf(Trim(CharsOf(name))), note |-> "", sets |-> Some(<<EmptySet, EmptySet, EmptySet>>)]

RemoveAt(xs, i) == SubSeq(xs, 1, i - 1) \o SubSeq(xs, i + 1, Len(xs))

\* the up arrow of row i (i > 1)
MoveUp(xs, i) == [j \in 1..Len(xs) |-> IF j = i - 1 THEN xs[i] ELSE IF j = i THEN xs[i - 1] ELSE xs[j]]

\* ------------------------------------------------------------------ state
VARIABLES
  history, loading, suggestedWorkout, overrides,          \* App state (useState)
  showSuccessScreen, lastCompletedAt, lastCompletedWorkout,
  todaysType, variation, inputs, workout,                  \* TodayScreenInner state and the currentWorkout memo
  editModalVisible, editingExercises,                      \* the edit modal
  distinctDatesCache,                                      \* _distinctDatesCache
  storage,                                                 \* AsyncStorage: workout_history, LAST_WORKOUT_KEY, OVERRIDES_KEY
  pending,                                                 \* async functions suspended at an await, in the order they resume
  clock, edits, reloads,                                   \* time of the last save; counters that bound the runs
  lastCall                                                 \* the last direct call of getDistinctSessionDates and its result

\* the overrides and the user logs, in memory and in storage, as they were when the last
\* onFinish was called (a history variable: the program does not keep it)
VARIABLES beforeFinish

VARIABLES
  lastAbWorkout,                                           \* App state: { date, type } or null
  abTemplates, inProgressSnapshot,                         \* App state
  substitutions, subSetCount, injectedWarmups,             \* TodayScreenInner state
  hasRestoredRef, injectedAb,                              \* TodayScreenInner: the ref, the injectedAb memo
  abStorage,                                               \* AsyncStorage: LAST_AB_WORKOUT_KEY, AB_TEMPLATES_KEY, ABS_SHOW_MIGRATION_KEY
  progressStorage,                                         \* AsyncStorage: IN_PROGRESS_WORKOUT_KEY
  day,                                                     \* the days passed since the launch
  entered, pressed,                                        \* the entries and the TYPE / VARIATION presses of the run (bound the runs)
  lastSaved,                                               \* history variable: what the last save() saw and passed on
  recorded,                                                \* history variable: the working sets of the last log written per exercise
  completedAb                                              \* history variable: the type and the date of the last ab workout completed

\* the state that the specification of the rotation, the templates and the history leaves alone
other == <<lastAbWorkout, abTemplates, inProgressSnapshot, substitutions, subSetCount, injectedWarmups,
           hasRestoredRef, injectedAb, abStorage, progressStorage, day, entered, pressed, lastSaved, recorded, completedAb>>

\* the ab exercises of the code, each with three sets to failure
AbTemplate(name, weight) ==
  [exercise |-> name, note |-> <<>>, targetReps |-> "fail",
   sets |-> [i \in 1..3 |-> [weight |-> weight, reps |-> <<"f", "a", "i", "l">>]]]

DEFAULT_AB_TEMPLATES ==
  [t \in {"A", "B", "C"} |->
     IF t = "A" THEN AbTemplate("Decline weighted abs", <<"3", "5">>)
     ELSE IF t = "B" THEN AbTemplate("Ab crunch machine", <<"1", "8", "0">>)
     ELSE AbTemplate("Abs oblique machine", <<"1", "1", "0">>)]

NoAbStorage == [last |-> <<>>, templates |-> <<>>, migrated |-> FALSE]

\* their values at mount, on a first launch
InitOther ==
  /\ lastAbWorkout = <<>> /\ abTemplates = DEFAULT_AB_TEMPLATES /\ inProgressSnapshot = <<>>
  /\ substitutions = <<>> /\ subSetCount = <<>> /\ injectedWarmups = <<>>
  /\ hasRestoredRef = FALSE /\ injectedAb = <<>>
  /\ abStorage = NoAbStorage /\ progressStorage = <<>>
  /\ day = 0 /\ entered = 0 /\ pressed = 0 /\ lastSaved = <<>> /\ recorded = <<>> /\ completedAb = <<>>

more == <<beforeFinish, other>>

vars == <<history, loading, suggestedWorkout, overrides, showSuccessScreen, lastCompletedAt,
          lastCompletedWorkout, todaysType, variation, inputs, workout, editModalVisible,
          editingExercises, distinctDatesCache, storage, pending, clock, edits, reloads, lastCall, more>>

NoWorkout == [type |-> "", date |-> <<>>, custom |-> FALSE, exercises |-> <<>>]

Memo(cw) == [type |-> cw.type, date |-> cw.date, custom |-> cw.custom, exercises |-> cw.exercises]

\* what an earlier run of the app left in storage: a template saved for Pull A, one
\* Pull A session logged with it the day before, then empty sessions up to Legs KOT
Yesterday == <<12, 4, 25>>

PriorLog == [date |-> Yesterday, completedAt |-> 1, exercise |-> "Row", type |-> Pull]

PriorTemplate ==
  Append(MapSeq(currentWorkout(<<>>, Pull, "A", NoOverrides).exercises, EditOpen), AddedExercise(NewName))

PriorOverrides ==
  [NoOverrides EXCEPT ![Pair(Pull, "A")] = Some([exercises |-> PriorTemplate, lastCompletedDate |-> Some(Yesterday)])]

\* storage at launch: a first launch; a LAST_WORKOUT_KEY that is not in the sequence
\* (Legs C, written by the build whose VARIATION button gave A/B/C); the earlier run
Stored ==
  { [history |-> None, last |-> None, overrides |-> None],
    [history |-> None, last |-> Some(Pair(Legs, "C")), overrides |-> None],
    [history |-> Some(<<PriorLog>>), last |-> Some(Pair(Legs, "KOT")), overrides |-> Some(PriorOverrides)] }

\* the values useState gives at mount of App; TodayScreenInner is not mounted while loading
Init ==
  /\ history = <<>> /\ loading = TRUE /\ suggestedWorkout = None /\ overrides = NoOverrides
  /\ showSuccessScreen = FALSE /\ lastCompletedAt = 0 /\ lastCompletedWorkout = None
  /\ todaysType = Push /\ variation = "A" /\ inputs = <<>> /\ workout = NoWorkout
  /\ editModalVisible = FALSE /\ editingExercises = <<>>
  /\ distinctDatesCache = <<>> /\ pending = <<>>
  /\ storage \in Stored
  /\ clock = 1 /\ edits = 0 /\ reloads = 0
  /\ lastCall = None
  /\ beforeFinish = None
  /\ InitOther

\* the render after a handler: the effect on [initialType, initialVariation] and the
\* currentWorkout memo on [todaysType, variation, overrides]
SyncedType(tt, sugg) == IF sugg # suggestedWorkout /\ IsSome(sugg) THEN Val(sugg).type ELSE tt

SyncedVariation(vv, sugg) == IF sugg # suggestedWorkout /\ IsSome(sugg) THEN Val(sugg).variation ELSE vv

Resolve(cw) == workout' = Memo(cw) /\ distinctDatesCache' = cw.cache

Display(t2, v2, sugg, ovr, ovrSet) ==
  /\ suggestedWorkout' = sugg
  /\ todaysType' = t2
  /\ variation' = v2
  /\ overrides' = ovr
  /\ IF t2 # todaysType \/ v2 # variation \/ ovrSet
     THEN Resolve(currentWorkout(distinctDatesCache, t2, v2, ovr))
     ELSE UNCHANGED <<workout, distinctDatesCache>>

Render(tt, vv, sugg, ovr, ovrSet) == Display(SyncedType(tt, sugg), SyncedVariation(vv, sugg), sugg, ovr, ovrSet)

\* no async function is suspended: the runs of this specification are those where
\* the user's next tap comes after the storage operations of the previous one
Idle == pending = <<>>

\* a run holds at most MaxOps of: sessions finished, templates saved, reloads
Budget == (clock - 1) + edits + reloads < MaxOps

\* ---------------------------------------------------------------- startup
\* a loadData that leaves the seed records as they are in seed_data.json
LoadedHistoryRawSeed(stored) == seedData \o UserLogs(IF IsSome(stored) THEN Val(stored) ELSE <<>>)

LoadedHistory(stored) == normalizedSeed \o UserLogs(IF IsSome(stored) THEN Val(stored) ELSE <<>>)

LoadedOverrides(stored) == IF IsSome(stored) THEN Val(stored) ELSE NoOverrides

\* loadData, then the effect on [loading] that calls setNext (suspended at its getItem)
LoadData ==
  /\ loading
  /\ history' = LoadedHistory(storage.history)
  /\ overrides' = LoadedOverrides(storage.overrides)
  /\ loading' = FALSE
  /\ todaysType' = Push /\ variation' = "A" /\ inputs' = <<>>
  /\ Resolve(currentWorkout(distinctDatesCache, Push, "A", LoadedOverrides(storage.overrides)))
  /\ pending' = Append(pending, [op |-> "setNext", pc |-> 1, last |-> storage.last])
  /\ UNCHANGED <<suggestedWorkout, showSuccessScreen, lastCompletedAt, lastCompletedWorkout,
                 editModalVisible, editingExercises, storage, clock, edits, reloads, lastCall, more>>

SetNextDone ==
  /\ pending # <<>> /\ Head(pending).op = "setNext"
  /\ Render(todaysType, variation, Some(StartupSuggestion(Head(pending).last)), overrides, FALSE)
  /\ pending' = Tail(pending)
  /\ UNCHANGED <<history, loading, showSuccessScreen, lastCompletedAt, lastCompletedWorkout, inputs,
                 editModalVisible, editingExercises, storage, clock, edits, reloads, lastCall, more>>

\* the app is closed and opened again: storage stays, memory starts over
Reload ==
  /\ reloads < MaxReloads /\ Budget
  /\ ~loading /\ Idle
  /\ reloads' = reloads + 1
  /\ history' = <<>> /\ loading' = TRUE /\ suggestedWorkout' = None /\ overrides' = NoOverrides
  /\ showSuccessScreen' = FALSE /\ lastCompletedAt' = 0 /\ lastCompletedWorkout' = None
  /\ todaysType' = Push /\ variation' = "A" /\ inputs' = <<>> /\ workout' = NoWorkout
  /\ editModalVisible' = FALSE /\ editingExercises' = <<>>
  /\ distinctDatesCache' = <<>> /\ pending' = <<>>
  /\ beforeFinish' = None
  /\ UNCHANGED <<storage, clock, edits, lastCall, other>>

\* ------------------------------------------------------------ Today screen
Shown == ~loading /\ ~showSuccessScreen /\ ~editModalVisible /\ Idle

\* the TYPE and VARIATION buttons, pressed before any set is entered
PressType ==
  /\ Shown /\ inputs = <<>>
  /\ Render(NextType(todaysType), "A", suggestedWorkout, overrides, FALSE)
  /\ UNCHANGED <<history, loading, showSuccessScreen, lastCompletedAt, lastCompletedWorkout, inputs,
                 editModalVisible, editingExercises, storage, pending, clock, edits, reloads, lastCall, more>>

PressVariation ==
  /\ Shown /\ inputs = <<>>
  /\ Render(todaysType, NextVariation(todaysType, variation), suggestedWorkout, overrides, FALSE)
  /\ UNCHANGED <<history, loading, showSuccessScreen, lastCompletedAt, lastCompletedWorkout, inputs,
                 editModalVisible, editingExercises, storage, pending, clock, edits, reloads, lastCall, more>>

exercisesToShow == workout.exercises

InputOf(name) == SelectSeq(inputs, LAMBDA e : e.name = name)

\* updateSetInput on a row of the list shown; done tells how many sets of the exercise
\* are complete afterwards: "none" or "all"
UpdateSetInput(name, done) ==
  /\ Shown
  /\ name \in Range(ExerciseNames(exercisesToShow))
  /\ IF InputOf(name) # <<>>
     THEN inputs' = [i \in 1..Len(inputs) |-> IF inputs[i].name = name THEN [name |-> name, done |-> done] ELSE inputs[i]]
     ELSE Len(inputs) < MaxInputs /\ inputs' = Append(inputs, [name |-> name, done |-> done])
  /\ inputs' # inputs
  /\ UNCHANGED <<history, loading, suggestedWorkout, overrides, showSuccessScreen, lastCompletedAt, lastCompletedWorkout,
                 todaysType, variation, workout, editModalVisible, editingExercises, distinctDatesCache,
                 storage, pending, clock, edits, reloads, lastCall, more>>

countIncompleteSets ==
  Cardinality({i \in 1..Len(exercisesToShow) :
                 LET e == InputOf(exercisesToShow[i].exercise) IN e = <<>> \/ e[1].done # "all"})

\* save(abs, pruneEmpty): one log per key of inputs
SaveLogs(pruneEmpty, completedAt) ==
  LET kept == SelectSeq(inputs, LAMBDA e : ~(pruneEmpty /\ e.done = "none"))
  IN MapSeq(kept, LAMBDA e : [date |-> Today, completedAt |-> completedAt, exercise |-> e.name, type |-> workout.type])

\* onFinish up to its first await
FinishedHistory(h, logs) == normalizedSeed \o (UserLogs(h) \o logs)

\* a write of workout_history that holds the new logs only
FinishedStoredLogsOnly(h, logs) == logs

FinishedStored(h, logs) == UserLogs(h) \o logs

Save(pruneEmpty) ==
  /\ clock <= MaxSessions /\ Budget
  /\ LET logs == SaveLogs(pruneEmpty, clock + 1)
     IN /\ history' = FinishedHistory(history, logs)
        /\ storage' = [storage EXCEPT !.history = Some(FinishedStored(history, logs))]
        /\ pending' = Append(pending, [op |-> "finish", pc |-> 1, logs |-> logs,
                                       completed |-> Pair(todaysType, variation), overrides |-> overrides])
  /\ clock' = clock + 1
  /\ inputs' = <<>>
  /\ beforeFinish' = Some([history |-> history, stored |-> storage.history,
                           overrides |-> overrides, storedOverrides |-> storage.overrides])
  /\ UNCHANGED <<loading, suggestedWorkout, overrides, showSuccessScreen, lastCompletedAt, lastCompletedWorkout,
                 todaysType, variation, workout, editModalVisible, editingExercises, distinctDatesCache, edits, reloads, lastCall, other>>

\* FINISH with every set complete
Finish == Shown /\ countIncompleteSets = 0 /\ Save(FALSE)

\* FINISH with sets left, then "Skip & Save"
SkipAndSave == Shown /\ countIncompleteSets > 0 /\ Save(TRUE)

\* --------------------------------------------------- onFinish after its awaits
Resume(op, pc) == pending # <<>> /\ Head(pending).op = op /\ Head(pending).pc = pc

Requeue(pc) == pending' = Append(Tail(pending), [Head(pending) EXCEPT !.pc = pc])

\* after the write of workout_history: the write of LAST_WORKOUT_KEY
FinishWriteLast ==
  /\ Resume("finish", 1)
  /\ storage' = [storage EXCEPT !.last = Some(Head(pending).completed)]
  /\ Requeue(2)
  /\ UNCHANGED <<editModalVisible, editingExercises, history, loading, suggestedWorkout, overrides, showSuccessScreen, lastCompletedAt, lastCompletedWorkout,
                 todaysType, variation, inputs, workout, distinctDatesCache, clock, edits, reloads, lastCall, more>>

\* { ...overrides, [type]: { ...overrides[type], [variation]: { ...entry, lastCompletedDate } } }
WithCompletionDate(ovr, completed, date) ==
  [ovr EXCEPT ![completed] = Some([Val(ovr[completed]) EXCEPT !.lastCompletedDate = Some(date)])]

\* after the write of LAST_WORKOUT_KEY: the next suggestion, the success screen, the override's date
FinishAdvance ==
  /\ Resume("finish", 2)
  /\ LET job == Head(pending)
         next == NextAfter(job.completed)
         fromOverride == job.logs # <<>> /\ IsSome(OverrideOf(job.overrides, job.completed.type, job.completed.variation))
         ovr == WithCompletionDate(job.overrides, job.completed, job.logs[1].date)
     IN /\ lastCompletedAt' = IF job.logs = <<>> THEN 0 ELSE job.logs[1].completedAt
        /\ lastCompletedWorkout' = Some(job.completed)
        /\ showSuccessScreen' = TRUE
        /\ IF fromOverride
           THEN /\ Render(todaysType, variation, Some(next), ovr, TRUE)
                /\ storage' = [storage EXCEPT !.overrides = Some(ovr)]
                /\ Requeue(3)
           ELSE /\ Render(todaysType, variation, Some(next), overrides, FALSE)
                /\ UNCHANGED storage
                /\ Requeue(4)
  /\ UNCHANGED <<editModalVisible, editingExercises, history, loading, inputs, clock, edits, reloads, lastCall, more>>

\* after the write of OVERRIDES_KEY: removeItem(IN_PROGRESS_WORKOUT_KEY)
FinishAfterOverride ==
  /\ Resume("finish", 3)
  /\ Requeue(4)
  /\ UNCHANGED <<editModalVisible, editingExercises, history, loading, suggestedWorkout, overrides, showSuccessScreen, lastCompletedAt, lastCompletedWorkout,
                 todaysType, variation, inputs, workout, distinctDatesCache, storage, clock, edits, reloads, lastCall, more>>

FinishDone ==
  /\ Resume("finish", 4)
  /\ pending' = Tail(pending)
  /\ UNCHANGED <<editModalVisible, editingExercises, history, loading, suggestedWorkout, overrides, showSuccessScreen, lastCompletedAt, lastCompletedWorkout,
                 todaysType, variation, inputs, workout, distinctDatesCache, storage, clock, edits, reloads, lastCall, more>>

\* "Done" and "Start Another Session" on the success screen
DismissSuccess ==
  /\ ~loading /\ showSuccessScreen /\ Idle
  /\ showSuccessScreen' = FALSE
  /\ UNCHANGED <<editModalVisible, editingExercises, history, loading, suggestedWorkout, overrides, lastCompletedAt, lastCompletedWorkout,
                 todaysType, variation, inputs, workout, distinctDatesCache, storage, pending, clock, edits, reloads, lastCall, more>>

\* ------------------------------------------------------- onUndoLastSession
\* an undo that drops every user log
UndoneLogsAll(h, at) == <<>>

UndoneLogs(h, at) == SelectSeq(h, LAMBDA log : CompletedAt(log) # 0 /\ CompletedAt(log) # at)

Undo ==
  /\ ~loading /\ showSuccessScreen /\ Idle /\ lastCompletedAt # 0
  /\ IsSome(lastCompletedWorkout)
  /\ LET userLogs == UndoneLogs(history, lastCompletedAt)
     IN /\ history' = normalizedSeed \o userLogs
        /\ storage' = [storage EXCEPT !.history = Some(userLogs)]
  /\ pending' = Append(pending, [op |-> "undo", pc |-> 1, workout |-> Val(lastCompletedWorkout), overrides |-> overrides])
  /\ UNCHANGED <<editModalVisible, editingExercises, loading, suggestedWorkout, overrides, showSuccessScreen,
                 lastCompletedAt, lastCompletedWorkout, todaysType, variation, inputs, workout, distinctDatesCache,
                 clock, edits, reloads, lastCall, more>>

UndoWriteLast ==
  /\ Resume("undo", 1)
  /\ storage' = [storage EXCEPT !.last = Some(Head(pending).workout)]
  /\ Requeue(2)
  /\ UNCHANGED <<editModalVisible, editingExercises, history, loading, suggestedWorkout, overrides, showSuccessScreen, lastCompletedAt, lastCompletedWorkout,
                 todaysType, variation, inputs, workout, distinctDatesCache, clock, edits, reloads, lastCall, more>>

\* const { lastCompletedDate, ...rest } = v
WithoutCompletionDate(ovr, w) == [ovr EXCEPT ![w] = Some([Val(ovr[w]) EXCEPT !.lastCompletedDate = None])]

UndoRestore ==
  /\ Resume("undo", 2)
  /\ LET job == Head(pending)
         hasOverride == IsSome(OverrideOf(job.overrides, job.workout.type, job.workout.variation))
         ovr == WithoutCompletionDate(job.overrides, job.workout)
     IN /\ lastCompletedAt' = 0
        /\ lastCompletedWorkout' = None
        /\ showSuccessScreen' = FALSE
        /\ IF hasOverride
           THEN /\ Render(todaysType, variation, Some(job.workout), ovr, TRUE)
                /\ storage' = [storage EXCEPT !.overrides = Some(ovr)]
                /\ Requeue(3)
           ELSE /\ Render(todaysType, variation, Some(job.workout), overrides, FALSE)
                /\ UNCHANGED storage
                /\ pending' = Tail(pending)
  /\ UNCHANGED <<editModalVisible, editingExercises, history, loading, inputs, clock, edits, reloads, lastCall, more>>

UndoDone ==
  /\ Resume("undo", 3)
  /\ pending' = Tail(pending)
  /\ UNCHANGED <<editModalVisible, editingExercises, history, loading, suggestedWorkout, overrides, showSuccessScreen, lastCompletedAt, lastCompletedWorkout,
                 todaysType, variation, inputs, workout, distinctDatesCache, storage, clock, edits, reloads, lastCall, more>>

\* -------------------------------------------------------------- edit modal
\* "Edit workout": one modal operation is made between opening and saving
OpenEdit ==
  /\ Shown /\ inputs = <<>>
  /\ edits < MaxEdits /\ Budget
  /\ editModalVisible' = TRUE
  /\ editingExercises' = MapSeq(workout.exercises, EditOpen)
  /\ UNCHANGED <<history, loading, suggestedWorkout, overrides, showSuccessScreen, lastCompletedAt, lastCompletedWorkout,
                 todaysType, variation, inputs, workout, distinctDatesCache, storage, pending, clock, edits, reloads, lastCall, more>>

Untouched == editingExercises = MapSeq(workout.exercises, EditOpen)

ModalStep(exercises) ==
  /\ editModalVisible /\ Untouched
  /\ editingExercises' = exercises
  /\ editingExercises' # editingExercises
  /\ UNCHANGED <<history, loading, suggestedWorkout, overrides, showSuccessScreen, lastCompletedAt, lastCompletedWorkout,
                 todaysType, variation, inputs, workout, editModalVisible, distinctDatesCache, storage, pending,
                 clock, edits, reloads, lastCall, more>>

\* "+ Add exercise" with a name typed in
AddExercise(name) == Trim(CharsOf(name)) # <<>> /\ ModalStep(Append(editingExercises, AddedExercise(name)))

\* "Remove" on row i
RemoveExercise(i) == i \in DOMAIN editingExercises /\ ModalStep(RemoveAt(editingExercises, i))

\* the up arrow on row i
MoveExerciseUp(i) == i \in DOMAIN editingExercises /\ i > 1 /\ ModalStep(MoveUp(editingExercises, i))

CancelEdit ==
  /\ editModalVisible
  /\ editModalVisible' = FALSE
  /\ UNCHANGED <<history, loading, suggestedWorkout, overrides, showSuccessScreen, lastCompletedAt, lastCompletedWorkout,
                 todaysType, variation, inputs, workout, editingExercises, distinctDatesCache, storage, pending,
                 clock, edits, reloads, lastCall, more>>

\* -------------------------------------------------------- onSaveOverrides
\* [variation]: { exercises }, as in the App of lines 1-1027: the entry is replaced whole
SavedOverridesWhole(ovr, type, var, exercises) ==
  [ovr EXCEPT ![Pair(type, var)] = Some([exercises |-> exercises, lastCompletedDate |-> None])]

\* { ...overrides, [type]: { ...overrides[type], [variation]: { ...overrides[type]?.[variation], exercises } } }
SavedOverrides(ovr, type, var, exercises) ==
  LET old == OverrideOf(ovr, type, var)
      entry == [exercises |-> exercises,
                lastCompletedDate |-> IF IsSome(old) THEN Val(old).lastCompletedDate ELSE None]
  IN [ovr EXCEPT ![Pair(type, var)] = Some(entry)]

\* "Save template" in the edit modal: onSaveOverrides(todaysType, variation, editingExercises)
SaveTemplate ==
  /\ editModalVisible
  /\ edits' = edits + 1
  /\ editModalVisible' = FALSE
  /\ LET next == SavedOverrides(overrides, todaysType, variation, editingExercises)
     IN /\ Render(todaysType, variation, suggestedWorkout, next, TRUE)
        /\ storage' = [storage EXCEPT !.overrides = Some(next)]
        /\ pending' = Append(pending, [op |-> "saveOverrides", pc |-> 1])
  /\ UNCHANGED <<history, loading, showSuccessScreen, lastCompletedAt, lastCompletedWorkout, inputs,
                 editingExercises, clock, reloads, lastCall, more>>

\* the write of OVERRIDES_KEY is done
SaveOverridesDone ==
  /\ Resume("saveOverrides", 1)
  /\ pending' = Tail(pending)
  /\ UNCHANGED <<history, loading, suggestedWorkout, overrides, showSuccessScreen, lastCompletedAt, lastCompletedWorkout,
                 todaysType, variation, inputs, workout, editModalVisible, editingExercises, distinctDatesCache,
                 storage, clock, edits, reloads, lastCall, more>>

\* ---------------------------------------------------------- specification
Dones == {"none", "all"}

NewNames == {NewName}

Next ==
  \/ LoadData
  \/ SetNextDone
  \/ Reload
  \/ PressType
  \/ PressVariation
  \/ \E i \in 1..MaxRows, done \in Dones : i \in DOMAIN exercisesToShow /\ UpdateSetInput(exercisesToShow[i].exercise, done)
  \/ Finish
  \/ SkipAndSave
  \/ FinishWriteLast
  \/ FinishAdvance
  \/ FinishAfterOverride
  \/ FinishDone
  \/ DismissSuccess
  \/ Undo
  \/ UndoWriteLast
  \/ UndoRestore
  \/ UndoDone
  \/ OpenEdit
  \/ \E name \in NewNames : AddExercise(name)
  \/ \E i \in 1..MaxRows : RemoveExercise(i)
  \/ \E i \in 1..(MaxRows + 1) : MoveExerciseUp(i)
  \/ CancelEdit
  \/ SaveTemplate
  \/ SaveOverridesDone

Spec == Init /\ [][Next]_vars

\* ------------------------------------- direct calls of getDistinctSessionDates
\* the arguments of the calls: lists of records of seed_data.json, type keys, counts
DataSets == {seedData, SubSeq(seedData, 1, 5), SubSeq(seedData, 6, 12), <<>>}

TypeKeys == {Push, "PUSH", "us", Pull}

Counts == 0..MaxCount

CallDates(data, typeKey, count) ==
  /\ CacheHas(distinctDatesCache, CacheKey(typeKey, count)) \/ Len(distinctDatesCache) < MaxCalls
  /\ lastCall' = Some([data |-> data, typeKey |-> typeKey, count |-> count,
                       result |-> getDistinctSessionDates(distinctDatesCache, data, typeKey, count).result])
  /\ distinctDatesCache' = getDistinctSessionDates(distinctDatesCache, data, typeKey, count).cache
  /\ UNCHANGED <<history, loading, suggestedWorkout, overrides, showSuccessScreen, lastCompletedAt,
                 lastCompletedWorkout, todaysType, variation, inputs, workout, editModalVisible,
                 editingExercises, storage, pending, clock, edits, reloads, more>>

NextDates == \E data \in DataSets, typeKey \in TypeKeys, count \in Counts : CallDates(data, typeKey, count)

SpecDates == Init /\ [][NextDates]_vars

\* ------------------------------------ taps while an async function is suspended
\* the Today screen is on display, whether or not onFinish or onSaveOverrides awaits storage
ShownBusy == ~loading /\ ~showSuccessScreen /\ ~editModalVisible

\* "Edit workout", pressed while the storage operations of an earlier tap may be pending
OpenEditBusy ==
  /\ ShownBusy
  /\ edits < MaxEdits /\ Budget
  /\ editModalVisible' = TRUE
  /\ editingExercises' = MapSeq(workout.exercises, EditOpen)
  /\ UNCHANGED <<history, loading, suggestedWorkout, overrides, showSuccessScreen, lastCompletedAt, lastCompletedWorkout,
                 todaysType, variation, inputs, workout, distinctDatesCache, storage, pending, clock, edits, reloads, lastCall, more>>

\* the modal is part of the Today screen: the success screen replaces it
AddExerciseBusy(name) == ~showSuccessScreen /\ AddExercise(name)

SaveTemplateBusy == ~showSuccessScreen /\ SaveTemplate

NextOverlap ==
  \/ LoadData
  \/ SetNextDone
  \/ PressType
  \/ \E i \in 1..MaxRows, done \in Dones : i \in DOMAIN exercisesToShow /\ UpdateSetInput(exercisesToShow[i].exercise, done)
  \/ Finish
  \/ SkipAndSave
  \/ FinishWriteLast
  \/ FinishAdvance
  \/ FinishAfterOverride
  \/ FinishDone
  \/ DismissSuccess
  \/ Undo
  \/ UndoWriteLast
  \/ UndoRestore
  \/ UndoDone
  \/ OpenEditBusy
  \/ \E name \in NewNames : AddExerciseBusy(name)
  \/ SaveTemplateBusy
  \/ SaveOverridesDone

SpecOverlap == Init /\ [][NextOverlap]_vars

\* ------------------------------------------------ texts typed and written
\* A text is the sequence of the characters of a string the code builds or takes apart
\* (the weight and reps typed, the cues, the notes of a log).  A number is held in
\* tenths: 425 is 42.5.
Digit == <<"0", "1", "2", "3", "4", "5", "6", "7", "8", "9">>

IsDigit(c) == c \in Range(Digit)

DigitValue(c) == (CHOOSE i \in 1..10 : Digit[i] = c) - 1

\* String(n) for a natural number n
RECURSIVE NatText(_)
NatText(n) == IF n < 10 THEN <<Digit[n + 1]>> ELSE NatText(n \div 10) \o <<Digit[(n % 10) + 1]>>

\* String(x) for the number of x10 tenths
NumberText(x10) == NatText(x10 \div 10) \o (IF x10 % 10 = 0 THEN <<>> ELSE <<".", Digit[(x10 % 10) + 1]>>)

\* the length of the longest run of digits of t that starts at position i
RECURSIVE DigitRun(_, _)
DigitRun(t, i) == IF i <= Len(t) /\ IsDigit(t[i]) THEN 1 + DigitRun(t, i + 1) ELSE 0

\* the value of the n digits of t from position i
RECURSIVE RunValue(_, _, _)
RunValue(t, i, n) == IF n = 0 THEN 0 ELSE RunValue(t, i, n - 1) * 10 + DigitValue(t[i + n - 1])

\* parseInt(t, 10) || 0, for a text without a sign
ParseIntOr0(t) == RunValue(TrimStart(t), 1, DigitRun(TrimStart(t), 1))

\* parseFloat(t) || 0 in tenths, for a text without sign or exponent and at most one decimal
ParseFloatOr0(t) ==
  LET u == TrimStart(t)
      n == DigitRun(u, 1)
      hasPoint == n + 1 <= Len(u) /\ u[n + 1] = "."
      m == IF hasPoint THEN DigitRun(u, n + 2) ELSE 0
  IN RunValue(u, 1, n) * 10 + (IF m > 0 THEN DigitValue(u[n + 2]) ELSE 0)

\* t.split(c) for a separator of one character
RECURSIVE Split(_, _)
Split(t, c) ==
  IF \E i \in 1..Len(t) : t[i] = c
  THEN LET i == CHOOSE j \in 1..Len(t) : t[j] = c /\ \A k \in 1..(j - 1) : t[k] # c
       IN <<SubSeq(t, 1, i - 1)>> \o Split(SubSeq(t, i + 1, Len(t)), c)
  ELSE <<t>>

\* xs.join(sep) for a separator text
RECURSIVE JoinText(_, _)
JoinText(xs, sep) ==
  IF xs = <<>> THEN <<>>
  ELSE IF Len(xs) = 1 THEN xs[1]
  ELSE xs[1] \o sep \o JoinText(Tail(xs), sep)

\* the position of the first digit of t, 0 if it has none
FirstDigit(t) == IF \E i \in 1..Len(t) : IsDigit(t[i]) THEN CHOOSE i \in 1..Len(t) : IsDigit(t[i]) /\ \A k \in 1..(i - 1) : ~IsDigit(t[k]) ELSE 0

\* getWeight: parseInt of the first match of /(\d+)/, 0 without a match
getWeight(t) == IF FirstDigit(t) = 0 THEN 0 ELSE RunValue(t, FirstDigit(t), DigitRun(t, FirstDigit(t)))

\* the characters of the weights and reps of seed_data.json and of DEFAULT_AB_TEMPLATES
SetSpelling ==
  ("" :> <<>>)
  @@ ("50" :> <<"5", "0">>)
  @@ ("12" :> <<"1", "2">>)
  @@ ("95" :> <<"9", "5">>)
  @@ ("8" :> <<"8">>)
  @@ ("Dropset" :> <<"D", "r", "o", "p", "s", "e", "t">>)
  @@ ("40" :> <<"4", "0">>)
  @@ ("10" :> <<"1", "0">>)
  @@ ("55" :> <<"5", "5">>)
  @@ ("Bodyweight" :> <<"B", "o", "d", "y", "w", "e", "i", "g", "h", "t">>)
  @@ ("BW" :> <<"B", "W">>)
  @@ ("135" :> <<"1", "3", "5">>)
  @@ ("225" :> <<"2", "2", "5">>)
  @@ ("5" :> <<"5">>)
  @@ ("Negative" :> <<"N", "e", "g", "a", "t", "i", "v", "e">>)
  @@ ("140" :> <<"1", "4", "0">>)
  @@ ("30" :> <<"3", "0">>)
  @@ ("230" :> <<"2", "3", "0">>)
  @@ ("20" :> <<"2", "0">>)
  @@ ("90" :> <<"9", "0">>)
  @@ ("4" :> <<"4">>)
  @@ ("35" :> <<"3", "5">>)
  @@ ("180" :> <<"1", "8", "0">>)
  @@ ("110" :> <<"1", "1", "0">>)
  @@ ("fail" :> <<"f", "a", "i", "l">>)

\* the text of a weight or reps string of a template or seed record
TextOf(str) == SetSpelling[str]

\* -------------------------------------------------------- reading the logs
\* String(log.notes || ''): the notes save() wrote, or the notes normalizeHistoryLog built
\* from the sets of a seed record (`${w}x${r}` joined by ', ')
NotesText(log) ==
  IF "notes" \notin DOMAIN log THEN <<>>
  ELSE IF CompletedAt(log) # 0 THEN log.notes
  ELSE JoinText(MapSeq(log.notes, LAMBDA pr : TextOf(pr[1]) \o <<"x">> \o TextOf(pr[2])), <<",", " ">>)

\* one segment of the notes: [w, r] = segment.split('x').map(trim)
ParsedSegment(segment) ==
  LET parts == MapSeq(Split(segment, "x"), Trim)
      w == parts[1]
      r == IF Len(parts) >= 2 THEN parts[2] ELSE <<>>
  IN [weight |-> IF w = <<"B", "W">> \/ w = <<>> THEN 0 ELSE ParseFloatOr0(w),
      reps |-> ParseIntOr0(r)]

parseNotesToSets(notes) ==
  LET part == Trim(Split(notes, "|")[1])
      segments == SelectSeq(MapSeq(Split(part, ","), Trim), LAMBDA seg : seg # <<>>)
  IN MapSeq(segments, ParsedSegment)

normalizeExerciseName(name) == ToLowerCase(Trim(CharsOf(name)))

\* the time a log is sorted by: new Date(completedAt).getTime(), or parseWorkoutDate(date);
\* completedAt is a moment of the day of log.date
LogTime(log) == ParseWorkoutDate(log.date) * 100 + CompletedAt(log)

\* the first of the matches after the stable sort, newest first; None without a match
getLastLogForExercise(h, exerciseName) ==
  LET key == normalizeExerciseName(exerciseName)
      matches == SelectSeq(h, LAMBDA log : normalizeExerciseName(log.exercise) = key /\ Includes(NotesText(log), <<"x">>))
  IN IF key = <<>> \/ matches = <<>> THEN None
     ELSE Some(matches[CHOOSE i \in 1..Len(matches) :
                         /\ \A j \in 1..Len(matches) : LogTime(matches[j]) <= LogTime(matches[i])
                         /\ \A j \in 1..(i - 1) : LogTime(matches[j]) < LogTime(matches[i])])

\* getWeightFromLog for a log written by save(): log.weight when positive, else getWeight(notes)
getWeightFromLog(log) == IF log.weight > 0 THEN log.weight ELSE getWeight(NotesText(log))

\* the first match of /(\d+)\s*x\s*(\d+)/i in a text, as <<w, r>>; None without a match
RepsStart(t, i) ==
  LET afterW == i + DigitRun(t, i)
      x == afterW + Len(SubSeq(t, afterW, Len(t))) - Len(TrimStart(SubSeq(t, afterW, Len(t))))
      afterX == x + 1
  IN IF x <= Len(t) /\ t[x] \in {"x", "X"}
     THEN afterX + Len(SubSeq(t, afterX, Len(t))) - Len(TrimStart(SubSeq(t, afterX, Len(t))))
     ELSE 0

MatchesAt(t, i) == IsDigit(t[i]) /\ RepsStart(t, i) # 0 /\ DigitRun(t, RepsStart(t, i)) > 0

SetMatch(t) ==
  IF \E i \in 1..Len(t) : MatchesAt(t, i)
  THEN LET i == CHOOSE j \in 1..Len(t) : MatchesAt(t, j) /\ \A k \in 1..(j - 1) : ~MatchesAt(t, k)
       IN Some(<<RunValue(t, i, DigitRun(t, i)), RunValue(t, RepsStart(t, i), DigitRun(t, RepsStart(t, i)))>>)
  ELSE None

\* the loop of getBestWeightAnd1RM over notes.split(','): the greatest w of the matches
\* with w > 0 and r > 0, and bestWeight when none is greater
RECURSIVE BestOver(_, _)
BestOver(sets, bestWeight) ==
  IF sets = <<>> THEN bestWeight
  ELSE LET m == SetMatch(Trim(sets[1]))
           better == IsSome(m) /\ Val(m)[1] > 0 /\ Val(m)[2] > 0 /\ Val(m)[1] > bestWeight
       IN BestOver(Tail(sets), IF better THEN Val(m)[1] ELSE bestWeight)

\* getBestWeightAnd1RM(log).weight for a log written by save(), which has no sets property
getBestWeightAnd1RM(log) == [weight |-> BestOver(Split(NotesText(log), ","), getWeightFromLog(log))]

\* ------------------------------------------- the Today screen, set by set
\* An object keyed by exercise name or by set index is a function on its keys;
\* inputs, whose key order save() follows, is the sequence of its entries
\* [name, sets, cues], where sets[idx] is [weight, reps] with optional texts.
NoKeys == <<>>

Get(f, k) == IF k \in DOMAIN f THEN Some(f[k]) ELSE None

Put(f, k, v) == [x \in DOMAIN f \cup {k} |-> IF x = k THEN v ELSE f[x]]

\* Object.keys(sets).map(Number).sort((a, b) => a - b)
SortedKeys(f) == [i \in 1..Cardinality(DOMAIN f) |-> CHOOSE x \in DOMAIN f : Cardinality({y \in DOMAIN f : y < x}) = i - 1]

\* inputs[name], None when the key is absent
EntryOf(inp, name) == IF \E i \in 1..Len(inp) : inp[i].name = name
                      THEN Some(inp[CHOOSE i \in 1..Len(inp) : inp[i].name = name]) ELSE None

\* inputs[name]?.sets || {}
SetsOf(inp, name) == IF IsSome(EntryOf(inp, name)) THEN Val(EntryOf(inp, name)).sets ELSE NoKeys

\* { ...prev, [name]: entry }
WithEntry(inp, entry) ==
  IF IsSome(EntryOf(inp, entry.name))
  THEN [i \in 1..Len(inp) |-> IF inp[i].name = entry.name THEN entry ELSE inp[i]]
  ELSE Append(inp, entry)

NoSet == [weight |-> None, reps |-> None]

\* updateSetInput(exerciseName, setIndex, field, value) applied to prev
updateSetInput(prev, exerciseName, setIndex, field, value) ==
  LET old == SetsOf(prev, exerciseName)
      oldSet == IF setIndex \in DOMAIN old THEN old[setIndex] ELSE NoSet
      cues == IF IsSome(EntryOf(prev, exerciseName)) THEN Val(EntryOf(prev, exerciseName)).cues ELSE None
  IN WithEntry(prev, [name |-> exerciseName, cues |-> cues,
                      sets |-> Put(old, setIndex, [oldSet EXCEPT ![field] = Some(value)])])

\* the cues TextInput: { ...prev[name], cues: v, sets: prev[name]?.sets || {} }
WithCues(prev, exerciseName, v) ==
  WithEntry(prev, [name |-> exerciseName, cues |-> Some(v), sets |-> SetsOf(prev, exerciseName)])

\* exercisesToShow.find(e => e.exercise === name)
ItemOf(shown, name) == IF \E i \in 1..Len(shown) : shown[i].exercise = name
                       THEN Some(shown[CHOOSE i \in 1..Len(shown) : shown[i].exercise = name /\ \A j \in 1..(i - 1) : shown[j].exercise # name])
                       ELSE None

\* (item.sets || []) of an item of the list
ItemSets(item) == IF item.sets = None THEN <<>> ELSE Val(item.sets)

\* (injectedWarmups[name] || []).length
WarmUpCount(warm, name) == IF name \in DOMAIN warm THEN Len(warm[name]) ELSE 0

\* the number of working rows of an item: the substitute's count, or the template's sets
WorkingSetCount(item, subs, counts) ==
  IF item.exercise \in DOMAIN subs THEN (IF item.exercise \in DOMAIN counts THEN counts[item.exercise] ELSE 1)
  ELSE Len(ItemSets(item))

\* s?.modifier ?? (item?.sets || [])[idx - warmUpCount]?.modifier ?? null, for inputs
\* that carry no modifier of their own
SetModifier(item, idx, warmUpCount) ==
  LET k == idx - warmUpCount + 1
  IN IF IsSome(item) /\ k \in 1..Len(ItemSets(Val(item))) /\ "modifier" \in DOMAIN ItemSets(Val(item))[k]
     THEN (IF ItemSets(Val(item))[k].modifier = "undefined" THEN "null" ELSE ItemSets(Val(item))[k].modifier)
     ELSE "null"

Filled(v) == IsSome(v) /\ Trim(Val(v)) # <<>>

\* the text of the one character U+2713 that marks a drop set or a negative as done
CheckMark == <<"check">>

\* isSetComplete(name, setIdx, setMod, s), s an optional set
isSetComplete(setMod, s) ==
  IF s = None THEN FALSE
  ELSE IF setMod \in {"drop", "negative"} THEN Val(s).reps = Some(CheckMark)
  ELSE Filled(Val(s).weight) /\ Filled(Val(s).reps)

\* the rows countIncompleteSets() counts: <<place in the list, set index>> of each row not complete
IncompleteSets(shown, inp, warm, subs, counts) ==
  LET rows(item) == 0..(WarmUpCount(warm, item.exercise) + WorkingSetCount(item, subs, counts) - 1)
      open(item) == {idx \in rows(item) :
                       ~isSetComplete(SetModifier(Some(item), idx, WarmUpCount(warm, item.exercise)),
                                      Get(SetsOf(inp, item.exercise), idx))}
  IN UNION {{<<i, idx>> : idx \in open(shown[i])} : i \in 1..Len(shown)}

\* `${s?.weight ?? 0}x${s?.reps ?? 0}`, 'Dropset' or 'Negative'
SetEntry(setMod, st) ==
  IF setMod = "drop" THEN <<"D", "r", "o", "p", "s", "e", "t">>
  ELSE IF setMod = "negative" THEN <<"N", "e", "g", "a", "t", "i", "v", "e">>
  ELSE (IF IsSome(st.weight) THEN Val(st.weight) ELSE <<"0">>) \o <<"x">> \o (IF IsSome(st.reps) THEN Val(st.reps) ELSE <<"0">>)

\* the indices of an entry that save() records
RecordedKeys(e, item, warmUpCount, pruneEmpty) ==
  SelectSeq(SortedKeys(e.sets),
            LAMBDA idx : ~(pruneEmpty /\ ~isSetComplete(SetModifier(item, idx, warmUpCount), Some(e.sets[idx]))))

CuesTail(cues) == IF IsSome(cues) /\ Val(cues) # <<>> THEN <<" ", "|", " ">> \o Val(cues) ELSE <<>>

\* ex.sets?.['0']?.weight === 'BW' ? 0 : getWeight(setArray[0] || '')
LogWeight(sets, setArray) ==
  IF 0 \in DOMAIN sets /\ sets[0].weight = Some(<<"B", "W">>) THEN 0
  ELSE getWeight(IF setArray = <<>> THEN <<>> ELSE setArray[1])

\* the log save() builds for one key of inputs; None when pruned away
LogFor(e, shown, warm, subs, pruneEmpty, completedAt, date, type) ==
  LET item == ItemOf(shown, e.name)
      warmUpCount == IF IsSome(item) THEN WarmUpCount(warm, e.name) ELSE 0
      setArray == MapSeq(RecordedKeys(e, item, warmUpCount, pruneEmpty),
                         LAMBDA idx : SetEntry(SetModifier(item, idx, warmUpCount), e.sets[idx]))
  IN IF pruneEmpty /\ setArray = <<>> THEN None
     ELSE Some([date |-> date, completedAt |-> completedAt,
                exercise |-> IF e.name \in DOMAIN subs THEN subs[e.name] ELSE e.name,
                notes |-> JoinText(setArray, <<",", " ">>) \o CuesTail(e.cues),
                weight |-> LogWeight(e.sets, setArray),
                type |-> type])

\* Object.keys(inputs).map(...).filter(Boolean)
InputLogs(inp, shown, warm, subs, pruneEmpty, completedAt, date, type) ==
  MapSeq(SelectSeq(MapSeq(inp, LAMBDA e : LogFor(e, shown, warm, subs, pruneEmpty, completedAt, date, type)), IsSome), Val)

\* ---------------------------------------------------------------- ab cycle
\* Math.floor((now - then) / day) for two dates of one month, now at any time of the day `today`
getDaysSince(date, today) == ParseWorkoutDate(today) - ParseWorkoutDate(date)

\* getNextAbType(lastAbWorkout?.type ?? null)
getNextAbType(lastAb) ==
  IF lastAb = None THEN "A"
  ELSE IF Val(lastAb).type = "A" THEN "B" ELSE IF Val(lastAb).type = "B" THEN "C" ELSE "A"

\* shouldInjectAbWorkout(lastAbWorkout?.date)
shouldInjectAbWorkout(lastAb, today) == lastAb = None \/ getDaysSince(Val(lastAb).date, today) >= 4

\* the injectedAb memo, computed on the day `today`
InjectedAbOf(templates, lastAb, today) ==
  IF ~shouldInjectAbWorkout(lastAb, today) THEN None
  ELSE LET nextType == getNextAbType(lastAb)
           template == templates[nextType]
           sets == [i \in 1..Len(template.sets) |-> [weight |-> template.sets[i].weight, reps |-> Trim(template.sets[i].reps)]]
       IN Some([type |-> nextType,
                exercise |-> [exercise |-> template.exercise, note |-> template.note, targetReps |-> template.targetReps,
                              sets |-> Some(IF sets = <<>> THEN [i \in 1..3 |-> [weight |-> <<>>, reps |-> <<>>]] ELSE sets),
                              abCycle |-> nextType]])

\* exercisesToShow with the injected ab exercise: [...base, injectedAb.exercise]
ShownWith(base, injected) == IF IsSome(injected) THEN Append(base, Val(injected).exercise) ELSE base

\* exercisesToShow.find(it => it._abCycle)
AbItemOf(shown) ==
  IF \E i \in 1..Len(shown) : "abCycle" \in DOMAIN shown[i]
  THEN Some(shown[CHOOSE i \in 1..Len(shown) : "abCycle" \in DOMAIN shown[i] /\ \A j \in 1..(i - 1) : "abCycle" \notin DOMAIN shown[j]])
  ELSE None

\* { weight: String(s?.weight ?? ''), reps: String(s?.reps ?? '').trim() || '' }
AbSet(st) == [weight |-> IF IsSome(st.weight) THEN Val(st.weight) ELSE <<>>,
              reps |-> IF IsSome(st.reps) THEN Trim(Val(st.reps)) ELSE <<>>]

\* the sets save() takes for the ab exercise: the recorded sets typed, or the template's when none was typed
AbSets(abItem, e, warm, pruneEmpty) ==
  IF DOMAIN e.sets # {}
  THEN MapSeq(RecordedKeys(e, Some(abItem), WarmUpCount(warm, abItem.exercise), pruneEmpty), LAMBDA idx : AbSet(e.sets[idx]))
  ELSE ItemSets(abItem)

\* `${s.weight || 0}x${s.reps || 0}`
AbSetEntry(st) == (IF st.weight # <<>> THEN st.weight ELSE <<"0">>) \o <<"x">> \o (IF st.reps # <<>> THEN st.reps ELSE <<"0">>)

\* abCompletion of save(); None stands for null
AbCompletionOf(inp, shown, warm, pruneEmpty) ==
  IF AbItemOf(shown) = None THEN None
  ELSE LET abItem == Val(AbItemOf(shown))
           e == IF IsSome(EntryOf(inp, abItem.exercise)) THEN Val(EntryOf(inp, abItem.exercise))
                ELSE [name |-> abItem.exercise, sets |-> NoKeys, cues |-> None]
           sets == AbSets(abItem, e, warm, pruneEmpty)
       IN IF pruneEmpty /\ sets = <<>> THEN None
          ELSE Some([type |-> abItem.abCycle,
                     template |-> [exercise |-> abItem.exercise,
                                   note |-> IF IsSome(e.cues) THEN Val(e.cues) ELSE abItem.note,
                                   targetReps |-> abItem.targetReps,
                                   sets |-> sets]])

\* the log save() pushes for the ab exercise when no log of inputs carries its name
AbLog(inp, shown, subs, ab, completedAt, date, type) ==
  LET name == ab.template.exercise
      e == EntryOf(inp, name)
      setArray == MapSeq(ab.template.sets, AbSetEntry)
  IN [date |-> date, completedAt |-> completedAt,
      exercise |-> IF name \in DOMAIN subs THEN subs[name] ELSE name,
      notes |-> JoinText(setArray, <<",", " ">>) \o CuesTail(IF IsSome(e) THEN Val(e).cues ELSE None),
      weight |-> LogWeight(SetsOf(inp, name), setArray),
      type |-> type]

\* what save(abs, pruneEmpty) passes to onFinish: logs, abCompletion, { abSkipped }
Saved(inp, shown, warm, subs, injected, pruneEmpty, completedAt, date, type) ==
  LET logs == InputLogs(inp, shown, warm, subs, pruneEmpty, completedAt, date, type)
      ab == AbCompletionOf(inp, shown, warm, pruneEmpty)
      abName == Val(ab).template.exercise
      abLogged == \E i \in 1..Len(logs) : logs[i].exercise = abName \/ (abName \in DOMAIN subs /\ logs[i].exercise = subs[abName])
  IN [logs |-> IF IsSome(ab) /\ ~abLogged THEN Append(logs, AbLog(inp, shown, subs, Val(ab), completedAt, date, type)) ELSE logs,
      abCompletion |-> ab,
      abSkipped |-> IsSome(injected) /\ ab = None]

\* ------------------------------------------- prior performance, warm-ups
\* lastLogByExercise[item.exercise]?.sets || []
LastSets(h, item, subs) ==
  LET lookupName == IF item.exercise \in DOMAIN subs THEN subs[item.exercise] ELSE item.exercise
      log == getLastLogForExercise(h, lookupName)
  IN IF item.exercise = "" \/ log = None THEN <<>> ELSE parseNotesToSets(NotesText(Val(log)))

\* prevSet of the row setIdx of an item (numbers in tenths); None stands for null
prevSet(h, item, setIdx, warm, subs) ==
  LET warmUpCount == WarmUpCount(warm, item.exercise)
      k == setIdx - warmUpCount + 1
  IN IF setIdx < warmUpCount THEN Some(warm[item.exercise][setIdx + 1])
     ELSE IF k \in 1..Len(LastSets(h, item, subs)) THEN Some(LastSets(h, item, subs)[k]) ELSE None

\* String(w).replace(/[^0-9.]/g, '')
DigitsAndDots(t) == SelectSeq(t, LAMBDA c : IsDigit(c) \/ c = ".")

Max(S) == CHOOSE x \in S : \A y \in S : y <= x

\* getOverloadNudgeMap(history, exercises)[name]?.targetWeight, in tenths; 0 without a nudge.
\* The items of the model carry no numeric targetReps, so the target is met when a set has reps.
NudgeWeight(h, item) ==
  LET sets == LastSets(h, item, NoKeys)
      weights == {sets[i].weight : i \in 1..Len(sets)}
  IN IF sets = <<>> \/ ~(\E i \in 1..Len(sets) : sets[i].reps > 0) \/ Max(weights) <= 0 THEN 0
     ELSE Max(weights) + 50

\* getWorkingWeightForExercise(item), in tenths; 0 stands for null
getWorkingWeightForExercise(item, inp, h) ==
  LET exInputs == SetsOf(inp, item.exercise)
      typed(idx) == IF exInputs[idx].weight = None \/ Val(exInputs[idx].weight) \in {<<>>, <<"B", "W">>} THEN 0
                    ELSE ParseFloatOr0(DigitsAndDots(Val(exInputs[idx].weight)))
      fromInputs == {typed(idx) : idx \in DOMAIN exInputs} \ {0}
      first == IF ItemSets(item) = <<>> \/ ItemSets(item)[1].weight \in {"Bodyweight", "BW"} THEN 0
               ELSE ParseFloatOr0(DigitsAndDots(TextOf(ItemSets(item)[1].weight)))
  IN IF fromInputs # {} THEN Max(fromInputs)
     ELSE IF first > 0 THEN first
     ELSE NudgeWeight(h, item)

\* Math.round((working * 0.5) / 2.5) * 2.5 || 2.5 and the like: working in tenths, the
\* factor num / den; exact where working * factor / 2.5 is not within rounding error of k + 1/2
WarmupWeight(working, num, den) ==
  LET steps == (2 * working * num + 25 * den) \div (50 * den)
  IN IF steps = 0 THEN 25 ELSE steps * 25

WarmupsFor(working) ==
  << [weight |-> WarmupWeight(working, 1, 2), reps |-> 8],
     [weight |-> WarmupWeight(working, 7, 10), reps |-> 4],
     [weight |-> WarmupWeight(working, 17, 20), reps |-> 2] >>

\* the inputs after generateWarmupsForExercise: the three warm-up rows first, the rows typed shifted by 3
WithWarmups(inp, name, warmups) ==
  LET exInputs == SetsOf(inp, name)
      sets == [idx \in {0, 1, 2} \cup {k + 3 : k \in DOMAIN exInputs} |->
                 IF idx - 3 \in DOMAIN exInputs THEN exInputs[idx - 3]
                 ELSE [weight |-> Some(NumberText(warmups[idx + 1].weight)), reps |-> Some(NatText(warmups[idx + 1].reps))]]
      cues == IF IsSome(EntryOf(inp, name)) THEN Val(EntryOf(inp, name)).cues ELSE None
  IN WithEntry(inp, [name |-> name, cues |-> cues, sets |-> sets])

\* ------------------------------------------------- a session, entry by entry
\* The specification of this section follows one run of the app through the Today
\* screen in full: inputs holds what is typed, set by set, and save() builds the
\* logs from it. Its runs are sequential, as those of Spec.

\* format(new Date(), 'MM/dd/yy') on the day d after the launch
DateOf(d) == <<Today[1], Today[2] + d, Today[3]>>

FourDaysAgo == <<12, 1, 25>>

\* an earlier run of this build that completed the ab workout `type` on `date`
PriorAb(date, type) == [last |-> Some([date |-> date, type |-> type]), templates |-> None, migrated |-> TRUE]

\* storage at launch, as <<storage, abStorage>>: Pull A was the last workout and the ab
\* workout B was completed yesterday, so that Legs A is suggested and no ab exercise is due
StoredSession ==
  { <<[history |-> None, last |-> Some(Pair(Pull, "A")), overrides |-> None], PriorAb(Yesterday, "B")>> }

\* a first launch; ab workout A completed four days ago; ab workout B completed yesterday;
\* ab workout B completed yesterday in the Pull A session of the earlier run, with Pull A
\* suggested again
StoredAb ==
  { <<[history |-> None, last |-> None, overrides |-> None], NoAbStorage>>,
    <<[history |-> None, last |-> Some(Pair(Push, "B")), overrides |-> None], PriorAb(FourDaysAgo, "A")>>,
    <<[history |-> None, last |-> Some(Pair(Pull, "A")), overrides |-> None], PriorAb(Yesterday, "B")>>,
    <<[history |-> Some(<<PriorLog>>), last |-> Some(Pair(Push, "A")), overrides |-> Some(PriorOverrides)], PriorAb(Yesterday, "B")>> }

\* the values useState gives at mount of App, over the storage of one of the launches
InitFrom(launches) ==
  /\ history = <<>> /\ loading = TRUE /\ suggestedWorkout = None /\ overrides = NoOverrides
  /\ showSuccessScreen = FALSE /\ lastCompletedAt = 0 /\ lastCompletedWorkout = None
  /\ todaysType = Push /\ variation = "A" /\ inputs = <<>> /\ workout = NoWorkout
  /\ editModalVisible = FALSE /\ editingExercises = <<>>
  /\ distinctDatesCache = <<>> /\ pending = <<>>
  /\ \E stored \in launches : storage = stored[1] /\ abStorage = stored[2]
  /\ clock = 1 /\ edits = 0 /\ reloads = 0
  /\ lastCall = None /\ beforeFinish = None
  /\ lastAbWorkout = None /\ abTemplates = DEFAULT_AB_TEMPLATES /\ inProgressSnapshot = None
  /\ substitutions = NoKeys /\ subSetCount = NoKeys /\ injectedWarmups = NoKeys
  /\ hasRestoredRef = FALSE /\ injectedAb = None
  /\ progressStorage = None
  /\ day = 0 /\ entered = 0 /\ pressed = 0 /\ lastSaved = None /\ recorded = NoKeys
  /\ completedAb = abStorage.last

\* what the actions of a session leave alone
untouched == <<editModalVisible, editingExercises, edits, lastCall, beforeFinish>>

\* exercisesToShow of TodayScreenInner: the memo on [currentWorkout.exercises, injectedAb]
exercisesToShowAll == ShownWith(workout.exercises, injectedAb)

\* { ...DEFAULT_AB_TEMPLATES, ...JSON.parse(abTemplatesStored) }
LoadedAbTemplates(stored) ==
  IF IsSome(stored)
  THEN [t \in DOMAIN DEFAULT_AB_TEMPLATES \cup DOMAIN Val(stored) |->
          IF t \in DOMAIN Val(stored) THEN Val(stored)[t] ELSE DEFAULT_AB_TEMPLATES[t]]
  ELSE DEFAULT_AB_TEMPLATES

\* the snapshot loadData restores: dated today, with a type and a variation
RestoredSnapshot(stored, today) ==
  IF IsSome(stored) /\ Val(stored).date = today /\ Val(stored).type # "" /\ Val(stored).variation # "" THEN stored ELSE None

\* loadData in full, the mount of TodayScreenInner with its effects (the restore effect
\* among them), then the effect on [loading] that calls setNext
LoadDataAll ==
  /\ loading
  /\ LET ovr == LoadedOverrides(storage.overrides)
         lastAb == IF abStorage.migrated THEN abStorage.last ELSE None
         templates == LoadedAbTemplates(abStorage.templates)
         restored == RestoredSnapshot(progressStorage, DateOf(day))
         atMount == currentWorkout(distinctDatesCache, Push, "A", ovr)
     IN /\ history' = LoadedHistory(storage.history)
        /\ overrides' = ovr
        /\ abTemplates' = templates
        /\ lastAbWorkout' = lastAb
        /\ abStorage' = [abStorage EXCEPT !.last = lastAb, !.migrated = TRUE]
        /\ progressStorage' = restored
        /\ inProgressSnapshot' = restored
        /\ loading' = FALSE
        /\ injectedAb' = InjectedAbOf(templates, lastAb, DateOf(day))
        /\ hasRestoredRef' = IsSome(restored)
        /\ IF IsSome(restored)
           THEN /\ todaysType' = Val(restored).type /\ variation' = Val(restored).variation
                /\ inputs' = Val(restored).inputs
                /\ substitutions' = Val(restored).substitutions
                /\ subSetCount' = Val(restored).subSetCount
                /\ injectedWarmups' = Val(restored).injectedWarmups
                /\ Resolve(currentWorkout(atMount.cache, Val(restored).type, Val(restored).variation, ovr))
           ELSE /\ todaysType' = Push /\ variation' = "A" /\ inputs' = <<>>
                /\ substitutions' = NoKeys /\ subSetCount' = NoKeys /\ injectedWarmups' = NoKeys
                /\ Resolve(atMount)
  /\ pending' = Append(pending, [op |-> "setNext", pc |-> 1, last |-> storage.last])
  /\ UNCHANGED <<suggestedWorkout, showSuccessScreen, lastCompletedAt, lastCompletedWorkout, storage, clock, reloads,
                 day, entered, pressed, lastSaved, recorded, completedAb, untouched>>

\* the app is closed and opened again: storage stays, memory starts over
ReloadSession ==
  /\ reloads < MaxReloads /\ Budget
  /\ ~loading /\ Idle
  /\ reloads' = reloads + 1
  /\ history' = <<>> /\ loading' = TRUE /\ suggestedWorkout' = None /\ overrides' = NoOverrides
  /\ showSuccessScreen' = FALSE /\ lastCompletedAt' = 0 /\ lastCompletedWorkout' = None
  /\ todaysType' = Push /\ variation' = "A" /\ inputs' = <<>> /\ workout' = NoWorkout
  /\ distinctDatesCache' = <<>> /\ pending' = <<>>
  /\ lastAbWorkout' = None /\ abTemplates' = DEFAULT_AB_TEMPLATES /\ inProgressSnapshot' = None
  /\ substitutions' = NoKeys /\ subSetCount' = NoKeys /\ injectedWarmups' = NoKeys
  /\ hasRestoredRef' = FALSE /\ injectedAb' = None
  /\ UNCHANGED <<storage, abStorage, progressStorage, clock, day, entered, pressed, lastSaved, recorded, completedAb, untouched>>

\* the state the taps on the Today screen leave alone
appState == <<history, loading, suggestedWorkout, overrides, showSuccessScreen, lastCompletedAt, lastCompletedWorkout,
              lastAbWorkout, abTemplates, inProgressSnapshot, hasRestoredRef, injectedAb,
              storage, abStorage, progressStorage, pending, clock, reloads, day, pressed, lastSaved, recorded, completedAb, untouched>>

\* the TYPE and VARIATION buttons, whatever is entered
Pressing == Shown /\ pressed < MaxPresses /\ pressed' = pressed + 1

pressUnchanged == <<history, loading, showSuccessScreen, lastCompletedAt, lastCompletedWorkout, inputs,
                    storage, pending, clock, reloads, lastAbWorkout, abTemplates, inProgressSnapshot,
                    substitutions, subSetCount, injectedWarmups, hasRestoredRef, injectedAb, abStorage,
                    progressStorage, day, entered, lastSaved, recorded, completedAb, untouched>>

PressTypeAny ==
  /\ Pressing
  /\ Render(NextType(todaysType), "A", suggestedWorkout, overrides, FALSE)
  /\ UNCHANGED pressUnchanged

PressVariationAny ==
  /\ Pressing
  /\ Render(todaysType, NextVariation(todaysType, variation), suggestedWorkout, overrides, FALSE)
  /\ UNCHANGED pressUnchanged

\* the rows of an item of the list: the warm-up rows, then the working rows
RowsOf(item) == 0..(WarmUpCount(injectedWarmups, item.exercise) + WorkingSetCount(item, substitutions, subSetCount) - 1)

RowModifier(item, idx) == SetModifier(Some(item), idx, WarmUpCount(injectedWarmups, item.exercise))

\* an entry, made while the run can still save a session
Entering == Shown /\ clock <= MaxSessions /\ entered < MaxEntered /\ entered' = entered + 1

\* a weight or the reps typed into a row
EnterSet(i, idx, field, value) ==
  /\ Entering
  /\ i \in 1..Len(exercisesToShowAll) /\ idx \in RowsOf(exercisesToShowAll[i])
  /\ RowModifier(exercisesToShowAll[i], idx) \notin {"drop", "negative"}
  /\ ~(field = "weight" /\ exercisesToShowAll[i].exercise = MartyName)
  /\ inputs' = updateSetInput(inputs, exercisesToShowAll[i].exercise, idx, field, value)
  /\ inputs' # inputs
  /\ UNCHANGED <<todaysType, variation, workout, distinctDatesCache, substitutions, subSetCount, injectedWarmups, appState>>

\* "Complete Dropset" or "Complete Negative" on a row
CompleteSpecialSet(i, idx) ==
  /\ Entering
  /\ i \in 1..Len(exercisesToShowAll) /\ idx \in RowsOf(exercisesToShowAll[i])
  /\ RowModifier(exercisesToShowAll[i], idx) \in {"drop", "negative"}
  /\ LET name == exercisesToShowAll[i].exercise
     IN /\ ~(idx \in DOMAIN SetsOf(inputs, name) /\ SetsOf(inputs, name)[idx].reps = Some(CheckMark))
        /\ inputs' = updateSetInput(updateSetInput(inputs, name, idx, "reps", CheckMark), name, idx, "weight", <<>>)
  /\ UNCHANGED <<todaysType, variation, workout, distinctDatesCache, substitutions, subSetCount, injectedWarmups, appState>>

\* the notes typed for an exercise
EnterCues(i, v) ==
  /\ Entering
  /\ i \in 1..Len(exercisesToShowAll)
  /\ inputs' = WithCues(inputs, exercisesToShowAll[i].exercise, v)
  /\ inputs' # inputs
  /\ UNCHANGED <<todaysType, variation, workout, distinctDatesCache, substitutions, subSetCount, injectedWarmups, appState>>

\* "Generate Warm-ups", shown on the first exercise of the list
GenerateWarmups ==
  /\ Shown /\ clock <= MaxSessions /\ exercisesToShowAll # <<>>
  /\ LET item == exercisesToShowAll[1]
         working == getWorkingWeightForExercise(item, inputs, history)
     IN /\ item.exercise # MartyName /\ item.exercise \notin DOMAIN injectedWarmups
        /\ working > 0
        /\ injectedWarmups' = Put(injectedWarmups, item.exercise, WarmupsFor(working))
        /\ inputs' = WithWarmups(inputs, item.exercise, WarmupsFor(working))
  /\ UNCHANGED <<todaysType, variation, workout, distinctDatesCache, substitutions, subSetCount, entered, appState>>

\* the name typed as a replacement
Replacement == "Lng"

\* "Sub", a replacement typed, "Apply"
ApplySub(i) ==
  /\ Entering
  /\ i \in 1..Len(exercisesToShowAll)
  /\ LET name == exercisesToShowAll[i].exercise
         cues == IF IsSome(EntryOf(inputs, name)) /\ IsSome(Val(EntryOf(inputs, name)).cues) THEN Val(EntryOf(inputs, name)).cues ELSE <<>>
     IN /\ name \notin DOMAIN substitutions
        /\ substitutions' = Put(substitutions, name, Replacement)
        /\ subSetCount' = Put(subSetCount, name, 1)
        /\ inputs' = WithEntry(inputs, [name |-> name, cues |-> Some(cues),
                                        sets |-> Put(NoKeys, 0, [weight |-> Some(<<>>), reps |-> Some(<<>>)])])
  /\ UNCHANGED <<todaysType, variation, workout, distinctDatesCache, injectedWarmups, appState>>

\* the payload of the snapshot effect
Snapshot == [date |-> DateOf(day), type |-> todaysType, variation |-> variation, inputs |-> inputs,
             substitutions |-> substitutions, subSetCount |-> subSetCount, injectedWarmups |-> injectedWarmups]

\* the timer of the snapshot effect fires, 1500 ms after the last change of the screen's
\* state; the runs hold the first write of a launch, made while the app can still be reloaded
WriteProgress ==
  /\ ~loading /\ Idle
  /\ reloads < MaxReloads /\ progressStorage = None
  /\ progressStorage' = Some(Snapshot)
  /\ UNCHANGED <<history, loading, suggestedWorkout, overrides, showSuccessScreen, lastCompletedAt, lastCompletedWorkout,
                 todaysType, variation, inputs, workout, distinctDatesCache, storage, pending, clock, reloads,
                 lastAbWorkout, abTemplates, inProgressSnapshot, substitutions, subSetCount, injectedWarmups,
                 hasRestoredRef, injectedAb, abStorage, day, entered, pressed, lastSaved, recorded, completedAb, untouched>>

\* midnight passes with the app in memory: no state changes, no memo is computed again
NextDay ==
  /\ ~loading /\ Idle /\ day < MaxDays
  /\ day' = day + 1
  /\ UNCHANGED <<history, loading, suggestedWorkout, overrides, showSuccessScreen, lastCompletedAt, lastCompletedWorkout,
                 todaysType, variation, inputs, workout, distinctDatesCache, storage, pending, clock, reloads,
                 lastAbWorkout, abTemplates, inProgressSnapshot, substitutions, subSetCount, injectedWarmups,
                 hasRestoredRef, injectedAb, abStorage, progressStorage, entered, pressed, lastSaved, recorded, completedAb, untouched>>

\* the working sets save() writes for one key of inputs, by their place among the working rows
WorkingOf(e, item, warmUpCount, pruneEmpty) ==
  LET keys == RecordedKeys(e, item, warmUpCount, pruneEmpty)
      working == {keys[j] : j \in {j \in 1..Len(keys) : keys[j] >= warmUpCount}}
  IN [k \in {idx - warmUpCount + 1 : idx \in working} |-> e.sets[k + warmUpCount - 1]]

\* the working sets of the logs of one save, by normalized exercise name: those of the
\* names that one log of the save carries
RecordedBy(inp, shown, warm, subs, pruneEmpty, logs) ==
  LET written == {i \in 1..Len(inp) : IsSome(LogFor(inp[i], shown, warm, subs, pruneEmpty, 0, Today, ""))}
      keyOf(i) == normalizeExerciseName(IF inp[i].name \in DOMAIN subs THEN subs[inp[i].name] ELSE inp[i].name)
      once == {i \in written : Cardinality({j \in 1..Len(logs) : normalizeExerciseName(logs[j].exercise) = keyOf(i)}) = 1}
  IN [key \in {keyOf(i) : i \in once} |->
        LET i == CHOOSE j \in once : keyOf(j) = key
            item == ItemOf(shown, inp[i].name)
        IN WorkingOf(inp[i], item, IF IsSome(item) THEN WarmUpCount(warm, inp[i].name) ELSE 0, pruneEmpty)]

\* recorded after a save: the names of its logs replace what was recorded for them
RecordedAfter(rec, by, logs) ==
  LET names == {normalizeExerciseName(logs[j].exercise) : j \in 1..Len(logs)}
  IN [key \in (DOMAIN rec \ names) \cup DOMAIN by |-> IF key \in DOMAIN by THEN by[key] ELSE rec[key]]

\* save(abs, pruneEmpty) in full, with onFinish up to its first await
SaveSession(pruneEmpty) ==
  /\ clock <= MaxSessions /\ Budget
  /\ LET shown == exercisesToShowAll
         sv == Saved(inputs, shown, injectedWarmups, substitutions, injectedAb, pruneEmpty, clock + 1, DateOf(day), workout.type)
     IN /\ history' = FinishedHistory(history, sv.logs)
        /\ storage' = [storage EXCEPT !.history = Some(FinishedStored(history, sv.logs))]
        /\ pending' = Append(pending, [op |-> "onFinish", pc |-> "history", logs |-> sv.logs,
                                       completed |-> Pair(todaysType, variation), overrides |-> overrides,
                                       abCompletion |-> sv.abCompletion, abSkipped |-> sv.abSkipped,
                                       abTemplates |-> abTemplates])
        /\ lastSaved' = Some([inputs |-> inputs, shown |-> shown, substitutions |-> substitutions,
                              injectedWarmups |-> injectedWarmups, pruneEmpty |-> pruneEmpty,
                              completedAt |-> clock + 1, date |-> DateOf(day), type |-> workout.type, logs |-> sv.logs])
        /\ recorded' = RecordedAfter(recorded, RecordedBy(inputs, shown, injectedWarmups, substitutions, pruneEmpty, sv.logs), sv.logs)
  /\ clock' = clock + 1
  /\ inputs' = <<>> /\ substitutions' = NoKeys /\ subSetCount' = NoKeys
  /\ UNCHANGED <<loading, suggestedWorkout, overrides, showSuccessScreen, lastCompletedAt, lastCompletedWorkout,
                 todaysType, variation, workout, distinctDatesCache, reloads,
                 lastAbWorkout, abTemplates, inProgressSnapshot, injectedWarmups, hasRestoredRef, injectedAb,
                 abStorage, progressStorage, day, entered, pressed, completedAb, untouched>>

NothingLeft == IncompleteSets(exercisesToShowAll, inputs, injectedWarmups, substitutions, subSetCount) = {}

\* FINISH with every set complete
FinishSession == Shown /\ NothingLeft /\ SaveSession(FALSE)

\* FINISH with sets left, then "Skip & Save"
SkipAndSaveSession == Shown /\ ~NothingLeft /\ SaveSession(TRUE)

\* the injectedAb memo after a render: computed again when abTemplates was set or the
\* date or the type of lastAbWorkout changed
MemoAb(templates, templatesSet, lastAb) ==
  injectedAb' = IF templatesSet \/ lastAb # lastAbWorkout THEN InjectedAbOf(templates, lastAb, DateOf(day)) ELSE injectedAb

\* after the write of workout_history, with abSkipped: setLastAbWorkout(null), removeItem(LAST_AB_WORKOUT_KEY)
FinishAbSkipped ==
  /\ Resume("onFinish", "history") /\ Head(pending).abSkipped
  /\ lastAbWorkout' = None
  /\ abStorage' = [abStorage EXCEPT !.last = None]
  /\ MemoAb(abTemplates, FALSE, None)
  /\ Requeue("abRemoved")
  /\ UNCHANGED <<history, loading, suggestedWorkout, overrides, showSuccessScreen, lastCompletedAt, lastCompletedWorkout,
                 todaysType, variation, inputs, workout, distinctDatesCache, storage, clock, reloads,
                 abTemplates, inProgressSnapshot, substitutions, subSetCount, injectedWarmups, hasRestoredRef,
                 progressStorage, day, entered, pressed, lastSaved, recorded, completedAb, untouched>>

\* the write of LAST_WORKOUT_KEY
FinishLast ==
  /\ \/ Resume("onFinish", "history") /\ ~Head(pending).abSkipped
     \/ Resume("onFinish", "abRemoved")
  /\ storage' = [storage EXCEPT !.last = Some(Head(pending).completed)]
  /\ Requeue("last")
  /\ UNCHANGED <<history, loading, suggestedWorkout, overrides, showSuccessScreen, lastCompletedAt, lastCompletedWorkout,
                 todaysType, variation, inputs, workout, distinctDatesCache, clock, reloads, other, untouched>>

\* the ab block of onFinish up to its await: the last ab workout set and written, or,
\* without an ab completion, removeItem(IN_PROGRESS_WORKOUT_KEY)
AbBlock(job) ==
  IF IsSome(job.abCompletion) /\ job.logs # <<>>
  THEN LET lastAb == Some([date |-> job.logs[1].date, type |-> Val(job.abCompletion).type])
       IN /\ lastAbWorkout' = lastAb
          /\ abStorage' = [abStorage EXCEPT !.last = lastAb]
          /\ completedAb' = lastAb
          /\ MemoAb(abTemplates, FALSE, lastAb)
          /\ Requeue("lastAb")
          /\ UNCHANGED progressStorage
  ELSE /\ progressStorage' = None
       /\ Requeue("progress")
       /\ UNCHANGED <<lastAbWorkout, abStorage, completedAb, injectedAb>>

\* after the write of LAST_WORKOUT_KEY: the next suggestion, the success screen, the
\* override's date, and without an override the ab block
FinishSuggest ==
  /\ Resume("onFinish", "last")
  /\ LET job == Head(pending)
         next == NextAfter(job.completed)
         fromOverride == job.logs # <<>> /\ IsSome(OverrideOf(job.overrides, job.completed.type, job.completed.variation))
         ovr == WithCompletionDate(job.overrides, job.completed, job.logs[1].date)
     IN /\ lastCompletedAt' = IF job.logs = <<>> THEN 0 ELSE job.logs[1].completedAt
        /\ lastCompletedWorkout' = Some(job.completed)
        /\ showSuccessScreen' = TRUE
        /\ IF fromOverride
           THEN /\ Render(todaysType, variation, Some(next), ovr, TRUE)
                /\ storage' = [storage EXCEPT !.overrides = Some(ovr)]
                /\ Requeue("overrides")
                /\ UNCHANGED <<lastAbWorkout, abStorage, completedAb, injectedAb, progressStorage>>
           ELSE /\ Render(todaysType, variation, Some(next), overrides, FALSE)
                /\ UNCHANGED storage
                /\ AbBlock(job)
  /\ UNCHANGED <<history, loading, inputs, clock, reloads, abTemplates, inProgressSnapshot, substitutions, subSetCount,
                 injectedWarmups, hasRestoredRef, day, entered, pressed, lastSaved, recorded, untouched>>

\* after the write of OVERRIDES_KEY: the ab block
FinishAfterOverrides ==
  /\ Resume("onFinish", "overrides")
  /\ AbBlock(Head(pending))
  /\ UNCHANGED <<history, loading, suggestedWorkout, overrides, showSuccessScreen, lastCompletedAt, lastCompletedWorkout,
                 todaysType, variation, inputs, workout, distinctDatesCache, storage, clock, reloads,
                 abTemplates, inProgressSnapshot, substitutions, subSetCount, injectedWarmups, hasRestoredRef,
                 day, entered, pressed, lastSaved, recorded, untouched>>

\* { ...abTemplates, [type]: { ...abTemplates[type], ...abCompletion.template } }
WithAbTemplate(templates, ab) == [templates EXCEPT ![ab.type] = ab.template]

\* after the write of LAST_AB_WORKOUT_KEY: the templates set and written
FinishAbTemplates ==
  /\ Resume("onFinish", "lastAb")
  /\ LET next == WithAbTemplate(Head(pending).abTemplates, Val(Head(pending).abCompletion))
     IN /\ abTemplates' = next
        /\ abStorage' = [abStorage EXCEPT !.templates = Some(next)]
        /\ MemoAb(next, TRUE, lastAbWorkout)
  /\ Requeue("abTemplates")
  /\ UNCHANGED <<history, loading, suggestedWorkout, overrides, showSuccessScreen, lastCompletedAt, lastCompletedWorkout,
                 todaysType, variation, inputs, workout, distinctDatesCache, storage, clock, reloads,
                 lastAbWorkout, inProgressSnapshot, substitutions, subSetCount, injectedWarmups, hasRestoredRef,
                 progressStorage, day, entered, pressed, lastSaved, recorded, completedAb, untouched>>

\* after the write of AB_TEMPLATES_KEY: removeItem(IN_PROGRESS_WORKOUT_KEY)
FinishRemoveProgress ==
  /\ Resume("onFinish", "abTemplates")
  /\ progressStorage' = None
  /\ Requeue("progress")
  /\ UNCHANGED <<history, loading, suggestedWorkout, overrides, showSuccessScreen, lastCompletedAt, lastCompletedWorkout,
                 todaysType, variation, inputs, workout, distinctDatesCache, storage, clock, reloads,
                 lastAbWorkout, abTemplates, inProgressSnapshot, substitutions, subSetCount, injectedWarmups,
                 hasRestoredRef, injectedAb, abStorage, day, entered, pressed, lastSaved, recorded, completedAb, untouched>>

\* after the removal: setInProgressSnapshot(null)
FinishSnapshot ==
  /\ Resume("onFinish", "progress")
  /\ inProgressSnapshot' = None
  /\ pending' = Tail(pending)
  /\ UNCHANGED <<history, loading, suggestedWorkout, overrides, showSuccessScreen, lastCompletedAt, lastCompletedWorkout,
                 todaysType, variation, inputs, workout, distinctDatesCache, storage, clock, reloads,
                 lastAbWorkout, abTemplates, substitutions, subSetCount, injectedWarmups,
                 hasRestoredRef, injectedAb, abStorage, progressStorage, day, entered, pressed, lastSaved, recorded, completedAb, untouched>>

\* what is typed: weights, reps, notes
Weights == {<<"1", "0", "0">>}

Reps == {<<"8">>}

Cues == {<<"p", "r", ",", " ", "3", "0", "0", "x", "1">>}

\* the entries of the user for the exercise at place i of the list: a weight, the reps,
\* a special set completed, notes, a substitute
Enter(i) ==
  \/ \E idx \in 0..MaxSetIndex : \/ \E w \in Weights : EnterSet(i, idx, "weight", w)
                            \/ \E r \in Reps : EnterSet(i, idx, "reps", r)
                            \/ CompleteSpecialSet(i, idx)
  \/ \E v \in Cues : EnterCues(i, v)
  \/ ApplySub(i)

\* onFinish after its awaits
FinishSteps ==
  \/ FinishAbSkipped
  \/ FinishLast
  \/ FinishSuggest
  \/ FinishAfterOverrides
  \/ FinishAbTemplates
  \/ FinishRemoveProgress
  \/ FinishSnapshot

\* one session from the launch to the success screen and the list after it
NextSession ==
  \/ LoadDataAll
  \/ SetNextDone
  \/ PressTypeAny
  \/ PressVariationAny
  \/ \E i \in 1..MaxPlace : Enter(i)
  \/ GenerateWarmups
  \/ FinishSession
  \/ SkipAndSaveSession
  \/ FinishLast
  \/ FinishSuggest
  \/ FinishSnapshot
  \/ DismissSuccess

InitSession == InitFrom(StoredSession)

SpecSession == InitSession /\ [][NextSession]_vars

\* a workout in progress, its snapshot, and the app opened again; these runs hold
\* fewer entries and presses than those of a session
Few == entered' <= MaxRestoreEntered /\ pressed' <= MaxRestorePresses

PressTypeFew == PressTypeAny /\ Few

PressVariationFew == PressVariationAny /\ Few

EnterFew(i) ==
  /\ \/ \E idx \in 0..MaxSetIndex : \/ \E w \in Weights : EnterSet(i, idx, "weight", w)
                               \/ \E r \in Reps : EnterSet(i, idx, "reps", r)
     \/ \E v \in Cues : EnterCues(i, v)
     \/ ApplySub(i)
  /\ Few

NextRestore ==
  \/ LoadDataAll
  \/ SetNextDone
  \/ PressTypeFew
  \/ PressVariationFew
  \/ \E i \in 1..MaxPlace : EnterFew(i)
  \/ GenerateWarmups
  \/ WriteProgress
  \/ ReloadSession

SpecRestore == InitSession /\ [][NextRestore]_vars

\* the ab cycle over the days
NextAb ==
  \/ LoadDataAll
  \/ SetNextDone
  \/ \E i \in 1..MaxAbPlace : Enter(i)
  \/ FinishSession
  \/ SkipAndSaveSession
  \/ FinishSteps
  \/ DismissSuccess
  \/ NextDay
  \/ ReloadSession

InitAb == InitFrom(StoredAb)

SpecAb == InitAb /\ [][NextAb]_vars

\* =================================================================== claims
\* the rotation as the specification lists it
Rotation == <<Pair(Push, "A"), Pair(Pull, "A"), Pair(Legs, "A"), Pair(Push, "B"), Pair(Pull, "B"),
              Pair(Legs, "B"), Pair(Push, "C"), Pair(Pull, "C"), Pair(Legs, "KOT")>>

InRotation(w) == \E i \in 1..9 : Rotation[i] = w

\* 0-based index of a workout of the rotation
IndexOf(w) == (CHOOSE i \in 1..9 : Rotation[i] = w) - 1

Successor(w) == Rotation[((IndexOf(w) + 1) % 9) + 1]

\* the step of onFinish that sets the next suggestion; the step of setNext that sets it at startup
AtFinishAdvance == pending # <<>> /\ Head(pending).op = "finish" /\ Head(pending).pc = 2

AtSetNext == pending # <<>> /\ Head(pending).op = "setNext"

PersistedSuccessor(last) == IF IsSome(last) /\ InRotation(Val(last)) THEN Successor(Val(last)) ELSE Pair(Push, "A")

\* C1: finishing a session for the workout at index i of WORKOUT_SEQUENCE makes the
\* suggested workout the entry at index (i+1) mod 9 (Legs KOT wraps to Push A); at
\* startup the suggestion is the successor of the persisted last-completed workout,
\* or Push A when nothing is persisted or the persisted value is not in the sequence.
C1_RotationAdvances ==
  [][ /\ WORKOUT_SEQUENCE = Rotation
      /\ AtFinishAdvance => /\ InRotation(Head(pending).completed)
                            /\ suggestedWorkout' = Some(Successor(Head(pending).completed))
      /\ AtSetNext => suggestedWorkout' = Some(PersistedSuccessor(Head(pending).last)) ]_vars

\* Legs KOT has been finished and the suggestion has wrapped to Push A
C1_Witness ==
  /\ lastCompletedWorkout = Some(Pair(Legs, "KOT"))
  /\ storage.last = Some(Pair(Legs, "KOT"))
  /\ suggestedWorkout = Some(Pair(Push, "A"))
  /\ showSuccessScreen

\* C2 as stated: after every onFinish the suggestion is the successor of the workout
\* that was suggested before the session.
C2_SuccessorOfSuggested ==
  [][AtFinishAdvance => suggestedWorkout' = Some(Successor(Val(suggestedWorkout)))]_vars

\* C2: onFinish advances from the workout that was completed, which is the one shown on
\* the Today screen; the suggestion afterwards is the successor of the one suggested before
\* when the user completed the suggested workout, and the successor of the workout the
\* TYPE and VARIATION buttons selected otherwise.
C2_SuccessorOfCompleted ==
  [][AtFinishAdvance =>
       /\ Head(pending).completed = Pair(todaysType, variation)
       /\ Head(pending).completed = Val(suggestedWorkout)
            => suggestedWorkout' = Some(Successor(Val(suggestedWorkout)))
       /\ Head(pending).completed # Val(suggestedWorkout)
            => suggestedWorkout' # Some(Successor(Val(suggestedWorkout)))]_vars

\* a session of another workout than the suggested Push A has been finished
C2_Witness ==
  /\ storage.history # None /\ reloads = 0 /\ edits = 0 /\ clock = 2
  /\ lastCompletedWorkout = Some(Pair(Pull, "B"))
  /\ suggestedWorkout = Some(Pair(Legs, "B"))

\* C3 as stated: in every quiescent state the in-memory suggestion is what startup
\* would compute from storage.
C3_SuggestionFollowsStorage ==
  (~loading /\ Idle) => suggestedWorkout = Some(PersistedSuccessor(storage.last))

\* C4 as stated: every type has exactly the variations A, B and C, on the VARIATION
\* button and in the rotation sequence.
C4_VariationsABC ==
  /\ variation \in {"A", "B", "C"}
  /\ \A t \in Types : {WORKOUT_SEQUENCE[i].variation : i \in {j \in 1..9 : WORKOUT_SEQUENCE[j].type = t}} = {"A", "B", "C"}

VariationsOf(t) == IF t = Legs THEN <<"A", "B", "KOT">> ELSE <<"A", "B", "C">>

PlaceIn(vs, v) == CHOOSE i \in 1..3 : vs[i] = v

AtVariationPress == todaysType' = todaysType /\ variation' # variation /\ suggestedWorkout' = suggestedWorkout /\ ~loading

\* C4: Push and Pull have the variations A, B and C; Legs has A, B and KOT.  The
\* VARIATION button visits them in that order and wraps, and the rotation sequence
\* holds exactly these variations for each type.
C4_VariationsByType ==
  /\ [](~loading => variation \in Range(VariationsOf(todaysType)))
  /\ [](\A t \in Types : {WORKOUT_SEQUENCE[i].variation : i \in {j \in 1..9 : WORKOUT_SEQUENCE[j].type = t}}
                          = Range(VariationsOf(t)))
  /\ [][AtVariationPress =>
          variation' = VariationsOf(todaysType)[(PlaceIn(VariationsOf(todaysType), variation) % 3) + 1]]_vars

\* the VARIATION button has brought Legs to KOT
C4_Witness == ~loading /\ todaysType = Legs /\ variation = "KOT" /\ suggestedWorkout = Some(Pair(Push, "A"))

\* C5: the exercise list resolved for today is a function of (type, variation,
\* overrides) and the seed data only: what the screen shows, resolved at any earlier
\* moment with whatever the lookup cache held then, equals a resolution of the same
\* (type, variation, overrides) made with an empty cache.
C5_ResolutionDeterministic ==
  ~loading => workout = Memo(currentWorkout(<<>>, todaysType, variation, overrides))

\* a seed template resolved with a cache that earlier lookups filled, after a session was finished and undone
C5_Witness ==
  /\ ~loading /\ Idle /\ clock = 2 /\ lastCompletedAt = 0 /\ Len(history) = Len(seedData)
  /\ Len(distinctDatesCache) = 3
  /\ todaysType = Pull /\ variation = "B" /\ ~workout.custom /\ Len(workout.exercises) > 0

\* the entries whose type contains typeKey, whatever the case
OfType(data, typeKey) == SelectSeq(data, LAMBDA d : TypeMatches(d, typeKey))

DatesOf(entries) == {entries[i].date : i \in 1..Len(entries)}

\* the multiset of trimmed, lower-cased exercise names logged on a date
NamesOn(entries, date) == {ToLowerCase(Trim(CharsOf(entries[i].exercise))) : i \in {j \in 1..Len(entries) : entries[j].date = date}}

SignatureOn(entries, date) ==
  [n \in NamesOn(entries, date) |->
     Cardinality({i \in 1..Len(entries) : entries[i].date = date /\ ToLowerCase(Trim(CharsOf(entries[i].exercise))) = n})]

Newer(a, b) == ParseWorkoutDate(a) > ParseWorkoutDate(b)

\* the dates that no newer date repeats the signature of
KeptDates(entries) ==
  {d \in DatesOf(entries) : ~\E e \in DatesOf(entries) : Newer(e, d) /\ SignatureOn(entries, e) = SignatureOn(entries, d)}

NewestFirst(dates) ==
  CHOOSE s \in [1..Cardinality(dates) -> dates] :
    /\ \A i, j \in 1..Cardinality(dates) : i < j => Newer(s[i], s[j])

FirstOf(s, count) == SubSeq(s, 1, IF count < Len(s) THEN count ELSE Len(s))

DistinctDatesContract(data, typeKey, count) == FirstOf(NewestFirst(KeptDates(OfType(data, typeKey))), count)

CallMeets(call) == call.result = DistinctDatesContract(call.data, call.typeKey, call.count)

UserPart(h) == SubSeq(h, Len(seedData) + 1, Len(h))

\* the step of save() that calls onFinish, and the logs it passes
AtFinishCall == clock' = clock + 1

PassedLogs == pending'[Len(pending')].logs

AtFinishAwait == pending # <<>> /\ Head(pending).op = "finish"

\* C7: onFinish appends only: the in-memory history becomes the normalized seed
\* entries, then every earlier user log in its order, then logs in order; the persisted
\* workout_history becomes that user-log part; the later steps of onFinish leave both alone.
C7_FinishAppends ==
  [][ /\ AtFinishCall => /\ history' = MapSeq(seedData, normalizeHistoryLog) \o UserPart(history) \o PassedLogs
                         /\ storage'.history = Some(UserPart(history) \o PassedLogs)
      /\ AtFinishAwait => history' = history /\ storage'.history = storage.history ]_vars

\* a session with a log has been folded in behind the log of the earlier run
C7_Witness ==
  /\ Idle /\ clock = 2 /\ IsSome(storage.history)
  /\ Len(Val(storage.history)) = 2 /\ Val(storage.history)[1] = PriorLog
  /\ Val(storage.history)[2].completedAt = 2
  /\ UserPart(history) = Val(storage.history)

\* C8: in every state where the finish and undo operations made so far are complete,
\* loadData on the persisted storage gives the in-memory history: the seed entries
\* once each, then the user logs in the same order.
C8_HistorySurvivesReload ==
  (~loading /\ Idle) =>
     /\ LoadedHistory(storage.history) = history
     /\ SubSeq(history, 1, Len(seedData)) = MapSeq(seedData, normalizeHistoryLog)
     /\ UserPart(history) = (IF IsSome(storage.history) THEN Val(storage.history) ELSE <<>>)

\* a session was finished with a log, and the app was then closed and opened again
C8_Witness ==
  /\ ~loading /\ Idle /\ reloads = 1 /\ clock = 2
  /\ Len(UserPart(history)) = 2 /\ UserPart(history)[2].completedAt = 2

AtSaveTemplate == editModalVisible /\ ~editModalVisible' /\ edits' = edits + 1

\* C9: after "Save template" with a non-empty list L for (type, variation), the workout
\* resolved for that pair is the exercises of L in the order of L and not the seed
\* template, in the running app and when resolved from what storage holds; in every
\* quiescent state the overrides in memory are the ones a reload would read.
C9_SavedTemplateResolved ==
  /\ [][(AtSaveTemplate /\ editingExercises # <<>>) =>
          /\ todaysType' = todaysType /\ variation' = variation
          /\ workout'.custom
          /\ workout'.exercises = MapSeq(editingExercises, normalizeExerciseSets)
          /\ ExerciseNames(workout'.exercises) = ExerciseNames(editingExercises)
          /\ currentWorkout(<<>>, todaysType, variation, LoadedOverrides(storage'.overrides)).exercises
               = workout'.exercises]_vars
  /\ []((~loading /\ Idle) => overrides = LoadedOverrides(storage.overrides))

\* a template saved for Push A with an added exercise is shown after a reload
C9_Witness ==
  /\ ~loading /\ Idle /\ reloads = 1 /\ edits = 1
  /\ todaysType = Push /\ variation = "A" /\ workout.custom
  /\ Len(workout.exercises) >= 2
  /\ workout.exercises[Len(workout.exercises)].exercise = "New"

\* C10: onSaveOverrides changes only the exercises of the one (type, variation): the
\* entries of every other pair are unchanged, in memory and in storage, and the
\* lastCompletedDate recorded for the edited pair is preserved.
C10_SaveOverridesFrame ==
  [][AtSaveTemplate =>
       /\ \A p \in Pairs : p # Pair(todaysType, variation) =>
            /\ overrides'[p] = overrides[p]
            /\ Val(storage'.overrides)[p] = overrides[p]
       /\ Val(overrides'[Pair(todaysType, variation)]).exercises = editingExercises
       /\ IsSome(overrides[Pair(todaysType, variation)]) =>
            Val(overrides'[Pair(todaysType, variation)]).lastCompletedDate
              = Val(overrides[Pair(todaysType, variation)]).lastCompletedDate
       /\ storage'.overrides = Some(overrides')]_vars

\* the Pull A template of the earlier run has been edited and keeps its completion date
C10_Witness ==
  /\ edits = 1 /\ Idle
  /\ IsSome(overrides[Pair(Pull, "A")])
  /\ Val(overrides[Pair(Pull, "A")]).lastCompletedDate = Some(Yesterday)
  /\ Val(overrides[Pair(Pull, "A")]).exercises # PriorTemplate
  /\ storage.overrides = Some(overrides)

\* the call of onUndoLastSession, and its steps after an await
AtUndoCall == pending = <<>> /\ pending' # <<>> /\ pending'[1].op = "undo"

AtUndoAwait == pending # <<>> /\ Head(pending).op = "undo"

\* the logs a stored workout_history reads back as (an absent key reads as no logs)
StoredLogs(stored) == IF IsSome(stored) THEN Val(stored) ELSE <<>>

\* C15: for an onFinish that recorded at least one log, the onUndoLastSession that follows
\* it leaves the in-memory history, and the logs persisted under workout_history, as they
\* were before that onFinish, the logs of the other sessions included; its later steps
\* leave both alone; it clears lastCompletedAt, and onUndoLastSession acts only while
\* lastCompletedAt is set, so a second undo without a new finish changes nothing.
C15_UndoRemovesFinished ==
  [][ /\ AtUndoCall => /\ lastCompletedAt # 0 /\ IsSome(lastCompletedWorkout) /\ IsSome(beforeFinish)
                       /\ history' = Val(beforeFinish).history
                       /\ StoredLogs(storage'.history) = StoredLogs(Val(beforeFinish).stored)
                       /\ UserPart(history') = StoredLogs(storage'.history)
      /\ AtUndoAwait => history' = history /\ storage'.history = storage.history
      /\ (AtUndoAwait /\ Head(pending).pc = 2) => lastCompletedAt' = 0 /\ lastCompletedWorkout' = None ]_vars

\* a session logged behind the log of the earlier run has been undone: the earlier log is kept
C15_Witness ==
  /\ Idle /\ clock = 2 /\ lastCompletedAt = 0 /\ ~showSuccessScreen /\ IsSome(beforeFinish)
  /\ storage.last # Some(Pair(Legs, "KOT"))
  /\ UserPart(history) = <<PriorLog>>
  /\ storage.history = Some(<<PriorLog>>)

\* C16 as stated: after an onFinish followed by onUndoLastSession the overrides, in memory
\* and persisted, the lastCompletedDate of the finished pair included, are what they were
\* before that onFinish.
C16_UndoRestoresOverrides ==
  [][(AtUndoAwait /\ Head(pending).pc = 2) =>
       /\ overrides' = Val(beforeFinish).overrides
       /\ LoadedOverrides(storage'.overrides) = LoadedOverrides(Val(beforeFinish).storedOverrides)]_vars

\* the exercises of the template saved for a pair, in given overrides
SavedExercises(ovr, p) == IF IsSome(ovr[p]) THEN Some(Val(ovr[p]).exercises) ELSE None

\* C17 as stated: a template saved by onSaveOverrides stays the exercises of its pair, in
\* memory and in storage, until the next onSaveOverrides: no other step of the program,
\* and so no step of an onFinish or onUndoLastSession that awaits its storage writes,
\* changes the exercises of a saved template.
C17_TemplateNeverLost ==
  [][(~loading /\ ~loading' /\ ~AtSaveTemplate) =>
       \A p \in Pairs :
         /\ IsSome(overrides[p]) => SavedExercises(overrides', p) = SavedExercises(overrides, p)
         /\ IsSome(LoadedOverrides(storage.overrides)[p]) =>
              SavedExercises(LoadedOverrides(storage'.overrides), p) = SavedExercises(LoadedOverrides(storage.overrides), p)]_vars

\* a set typed with a weight and reps in digits
Numeric(st) ==
  /\ IsSome(st.weight) /\ Val(st.weight) # <<>> /\ \A j \in 1..Len(Val(st.weight)) : IsDigit(Val(st.weight)[j])
  /\ IsSome(st.reps) /\ Val(st.reps) # <<>> /\ \A j \in 1..Len(Val(st.reps)) : IsDigit(Val(st.reps)[j])

\* the name an item's prior performance is looked up by
LookupKey(item) ==
  normalizeExerciseName(IF item.exercise \in DOMAIN substitutions THEN substitutions[item.exercise] ELSE item.exercise)

\* the working rows of an item whose k-th working set the last session of the exercise recorded in digits
AlignedRows(item) ==
  {idx \in RowsOf(item) :
     LET k == idx - WarmUpCount(injectedWarmups, item.exercise) + 1
     IN /\ k >= 1
        /\ LookupKey(item) \in DOMAIN recorded
        /\ k \in DOMAIN recorded[LookupKey(item)]
        /\ Numeric(recorded[LookupKey(item)][k])}

\* C11: on the Today screen, the prevSet of every working row k of every exercise shown is
\* the weight and the reps typed for the k-th working set of the last session that logged
\* the exercise, warm-up rows not counted
C11_PrevSetAligned ==
  Shown =>
    \A i \in 1..Len(exercisesToShowAll) :
      \A idx \in AlignedRows(exercisesToShowAll[i]) :
        LET item == exercisesToShowAll[i]
            st == recorded[LookupKey(item)][idx - WarmUpCount(injectedWarmups, item.exercise) + 1]
        IN prevSet(history, item, idx, injectedWarmups, substitutions)
             = Some([weight |-> ParseFloatOr0(Val(st.weight)), reps |-> ParseIntOr0(Val(st.reps))])

\* the log the last save built for the entry e of its inputs; None when pruned away
SavedLog(e) ==
  LET sv == Val(lastSaved)
  IN LogFor(e, sv.shown, sv.injectedWarmups, sv.substitutions, sv.pruneEmpty, sv.completedAt, sv.date, sv.type)

\* the sets of the entry e that the last save recorded
SavedSets(e) ==
  LET sv == Val(lastSaved)
      item == ItemOf(sv.shown, e.name)
      warmUpCount == IF IsSome(item) THEN WarmUpCount(sv.injectedWarmups, e.name) ELSE 0
      keys == RecordedKeys(e, item, warmUpCount, sv.pruneEmpty)
  IN [j \in 1..Len(keys) |-> [set |-> e.sets[keys[j]], modifier |-> SetModifier(item, keys[j], warmUpCount)]]

\* every recorded set of the entry is a plain set with an integer weight >= 1 and integer reps >= 1
WholeSets(e) ==
  /\ SavedSets(e) # <<>>
  /\ \A j \in 1..Len(SavedSets(e)) :
       /\ SavedSets(e)[j].modifier \notin {"drop", "negative"}
       /\ Numeric(SavedSets(e)[j].set)
       /\ ParseIntOr0(Val(SavedSets(e)[j].set.weight)) >= 1
       /\ ParseIntOr0(Val(SavedSets(e)[j].set.reps)) >= 1

\* C12: for every log save() wrote from sets with an integer weight >= 1 and integer
\* reps >= 1, whatever notes were typed, getBestWeightAnd1RM(log).weight is the greatest
\* weight among the sets recorded in the log
C12_BestWeightIsGreatest ==
  IsSome(lastSaved) =>
    \A i \in 1..Len(Val(lastSaved).inputs) :
      LET e == Val(lastSaved).inputs[i]
      IN (IsSome(SavedLog(e)) /\ WholeSets(e)) =>
           getBestWeightAnd1RM(Val(SavedLog(e))).weight
             = Max({ParseIntOr0(Val(SavedSets(e)[j].set.weight)) : j \in 1..Len(SavedSets(e))})

\* a step that is a call of save()
AtSessionSave == clock' = clock + 1

\* C14: after save() the inputs, the substitutions, the substitute set counts and the
\* injected warm-up sets are all empty
C14_EntryStateCleared ==
  [][AtSessionSave =>
       /\ inputs' = <<>>
       /\ substitutions' = NoKeys
       /\ subSetCount' = NoKeys
       /\ injectedWarmups' = NoKeys]_vars

\* the names a log of the list `shown` may carry: the name of an exercise shown, or its substitute
NamesShown(shown, subs) ==
  {shown[i].exercise : i \in 1..Len(shown)}
    \cup {subs[shown[i].exercise] : i \in {j \in 1..Len(shown) : shown[j].exercise \in DOMAIN subs}}

\* C18: every log save() passed to onFinish carries the name, or the substitute, of an
\* exercise of the list shown when FINISH was pressed
C18_LogsOfShown ==
  IsSome(lastSaved) =>
    \A j \in 1..Len(Val(lastSaved).logs) :
      Val(lastSaved).logs[j].exercise \in NamesShown(Val(lastSaved).shown, Val(lastSaved).substitutions)

\* C13: when loadData restored a snapshot dated today, then once setNext has finished too
\* the Today screen shows the snapshot's type and variation with its inputs, substitutions,
\* substitute set counts and injected warm-ups, whatever workout is suggested
C13_SnapshotRestored ==
  [][(AtSetNext /\ IsSome(inProgressSnapshot)) =>
       /\ todaysType' = Val(inProgressSnapshot).type
       /\ variation' = Val(inProgressSnapshot).variation
       /\ inputs' = Val(inProgressSnapshot).inputs
       /\ substitutions' = Val(inProgressSnapshot).substitutions
       /\ subSetCount' = Val(inProgressSnapshot).subSetCount
       /\ injectedWarmups' = Val(inProgressSnapshot).injectedWarmups]_vars

\* the type that follows the last ab workout completed: A -> B -> C -> A, A when none was
AbSuccessor ==
  IF completedAb = None THEN "A"
  ELSE IF Val(completedAb).type = "A" THEN "B" ELSE IF Val(completedAb).type = "B" THEN "C" ELSE "A"

\* C19: an ab exercise injected into today's list has the type that follows the type of the
\* ab workout completed last, A when none was ever completed
C19_AbCycleFollows ==
  (~loading /\ IsSome(injectedAb)) => Val(injectedAb).type = AbSuccessor

\* C20: the list shown ends with an ab exercise exactly when no last ab workout is recorded
\* or 4 whole days or more have passed since its date; from the day an ab workout was
\* completed to the third day after it no ab exercise is injected
C20_AbInjectedWhenDue ==
  ~loading =>
    /\ IsSome(injectedAb) <=> shouldInjectAbWorkout(lastAbWorkout, DateOf(day))
    /\ IsSome(injectedAb) => exercisesToShowAll[Len(exercisesToShowAll)] = Val(injectedAb).exercise
    /\ (IsSome(completedAb) /\ getDaysSince(Val(completedAb).date, DateOf(day)) \in 0..3) => injectedAb = None

\* the ab exercise of the list of the last save, and the names its log may carry
SavedAbItem == Val(AbItemOf(Val(lastSaved).shown))

SavedAbNames ==
  {SavedAbItem.exercise}
    \cup {Val(lastSaved).substitutions[n] : n \in {SavedAbItem.exercise} \cap DOMAIN Val(lastSaved).substitutions}

\* the user completed at least one set of the ab exercise before the last save
SavedAbSetCompleted ==
  LET sv == Val(lastSaved)
      sets == SetsOf(sv.inputs, SavedAbItem.exercise)
  IN \E idx \in DOMAIN sets :
       isSetComplete(SetModifier(Some(SavedAbItem), idx, WarmUpCount(sv.injectedWarmups, SavedAbItem.exercise)),
                     Some(sets[idx]))

\* C21: after Skip & Save with an ab exercise in the list of which no set was completed,
\* no log of the ab exercise is written and save() reports no ab completion (the ab
\* exercise counts as skipped, and neither the last ab workout nor its template is updated)
C21_AbDoneOnlyIfCompleted ==
  (IsSome(lastSaved) /\ Val(lastSaved).pruneEmpty /\ IsSome(AbItemOf(Val(lastSaved).shown)) /\ ~SavedAbSetCompleted) =>
    /\ \A j \in 1..Len(Val(lastSaved).logs) : Val(lastSaved).logs[j].exercise \notin SavedAbNames
    /\ AbCompletionOf(Val(lastSaved).inputs, Val(lastSaved).shown, Val(lastSaved).injectedWarmups, TRUE) = None

====
